---- MODULE Spec2Model ----
(***************************************************************************)
(* Model of two parts of the babeltrace library:                           *)
(*                                                                         *)
(*   - the shared-object plugin loader (src/unnamed/part_003, the          *)
(*     library's plugin-so.c): loading a plugin file or the statically     *)
(*     linked sections, and the life of the shared library handle, the     *)
(*     plugins, the component classes and the components made from them;   *)
(*                                                                         *)
(*   - the discarded events / discarded packets messages                   *)
(*     (src/src/lib/graph/message/discarded-items.c) and their C++         *)
(*     wrapper (src/src/cpp-common/bt2/message.hpp).                       *)
(*                                                                         *)
(* A failed precondition (BT_ASSERT_PRE), a failed internal assertion      *)
(* (BT_ASSERT) and bt_common_abort() end the process: the model records    *)
(* the reason in `aborted` and no operation runs afterwards.               *)
(*                                                                         *)
(* The checks of the developer mode only (BT_ASSERT_PRE_DEV, among them    *)
(* BT_ASSERT_PRE_DEV_NO_ERROR and the frozen message check) and of the     *)
(* debug mode only (BT_ASSERT_DBG) are not part of the model; the          *)
(* arguments of the calls are not NULL; the functions of the user (plugin  *)
(* initialization and exit) do not touch the thread's error.               *)
(***************************************************************************)
EXTENDS Integers, Sequences, FiniteSets, TLC

VARIABLES
    \* ---- discarded items messages ----
    stream_class,       \* the stream's class (capability flags)
    stream_ref_count,   \* reference count of the stream
    messages,           \* message objects, by slot
    msg_call,           \* the last message API call and what it returned
    \* ---- plugin loader ----
    phase,              \* "start", "loaded" or "exited" (after process teardown)
    load,               \* the load call made and what it returned
    handle,             \* the shared library handle
    plugins,            \* plugins of the returned plugin set
    plugin_set_refs,    \* user references on the returned plugin set
    comp_classes,       \* component classes created by the load
    component_class_list, \* the library's global list (set of class ids)
    components,         \* live components (class id of each)
    error_causes,       \* causes appended to the current thread's error
    \* ---- stream beginning / stream end messages ----
    stream_messages,    \* message objects, by slot
    stream_msg_call,    \* the last stream message API call and its result
    \* ---- CTF metadata of a filesystem source trace ----
    metadata,           \* the AST given, the validation and the trace class
    \* ---- text to CTF converter ----
    converter,          \* the stream position, the output and the reports
    \* ---- graph ----
    graph,              \* the graph's state and the calls made on its sinks
    \* ---- sink.ctf.fs ----
    fs_sink,            \* the files of the trace directory
    \* ---- debug-info comparison ----
    pipeline,           \* the trace and the outputs of the two runs
    \* ---- all ----
    aborted             \* "none", or why the process aborted

vars == <<stream_class, stream_ref_count, messages, msg_call,
          phase, load, handle, plugins, plugin_set_refs, comp_classes,
          component_class_list, components, error_causes,
          stream_messages, stream_msg_call, metadata, converter, graph,
          fs_sink, pipeline, aborted>>

msg_vars == <<stream_class, stream_ref_count, messages, msg_call>>
plugin_vars == <<phase, load, handle, plugins, plugin_set_refs, comp_classes,
                 component_class_list, components, error_causes>>
stream_msg_vars == <<stream_messages, stream_msg_call>>
ext_vars == <<stream_msg_vars, metadata, converter, graph, fs_sink, pipeline>>

(***************************************************************************)
(* Bounds of the model.                                                    *)
(***************************************************************************)
MaxCauses == 2      \* causes appended to the thread's error by messages
MaxRaw == 2         \* clock snapshot raw values are 0..MaxRaw
MaxCount == 2       \* discarded item counts are 0..MaxCount
MaxStreamRefs == 3  \* references on the stream a creation may start from
MaxListLen == 2     \* unary expressions in a list of the metadata AST
MaxLines == 4       \* lines of the converter's input
MaxLineLen == 5     \* characters of a line of the converter's input
MaxComponents == 3  \* components of a graph
MaxConnections == 2 \* connections of a graph
MaxConsumes == 3    \* consume calls the graph makes
MaxStreams == 3     \* streams a sink.ctf.fs component writes
MaxTraceLen == 2    \* messages of the trace of the debug-info comparison

(***************************************************************************)
(* Function status codes (babeltrace2/func-status.h).                      *)
(***************************************************************************)
BT_FUNC_STATUS_OK == 0
BT_FUNC_STATUS_NOT_FOUND == 2
BT_FUNC_STATUS_ERROR == -1
BT_FUNC_STATUS_MEMORY_ERROR == -12

(***************************************************************************)
(*                     DISCARDED ITEMS MESSAGES                            *)
(***************************************************************************)

\* A clock snapshot pointer: <<>> is NULL, <<v>> a snapshot of raw value v.
NoCs == <<>>

\* The configurations a stream class can have: default clock snapshots
\* for discarded items require the support flag and a default clock class.
StreamClasses ==
    { sc \in [supports_discarded_events : BOOLEAN,
              discarded_events_have_default_clock_snapshots : BOOLEAN,
              supports_discarded_packets : BOOLEAN,
              discarded_packets_have_default_clock_snapshots : BOOLEAN,
              default_clock_class : BOOLEAN] :
        /\ sc.discarded_events_have_default_clock_snapshots =>
              (sc.supports_discarded_events /\ sc.default_clock_class)
        /\ sc.discarded_packets_have_default_clock_snapshots =>
              (sc.supports_discarded_packets /\ sc.default_clock_class) }

DiscardedTypes == {"DISCARDED_EVENTS", "DISCARDED_PACKETS"}

\* Which allocation of a creation fails, if any.
AllocFaults == {"none", "message", "begin_cs", "end_cs"}

\* bt_property_uint_init() / bt_property_uint_set()
bt_property_uint_init(avail, value) == [avail |-> avail, value |-> value]
bt_property_uint_set(value) == [avail |-> "AVAILABLE", value |-> value]

\* A message slot that holds no object; g_new0() zeroes the structure.
FreeMsg == [state |-> "free", type |-> "NONE", holds_stream |-> FALSE,
            default_begin_cs |-> NoCs, default_end_cs |-> NoCs,
            count |-> [avail |-> "NOT_AVAILABLE", value |-> 0]]

\* A variant that reads the flag of the other kind of message.
has_support_of_other_kind(sc, type) ==
    IF type = "DISCARDED_EVENTS" THEN sc.supports_discarded_packets
    ELSE sc.supports_discarded_events

has_support(sc, type) ==
    IF type = "DISCARDED_EVENTS" THEN sc.supports_discarded_events
    ELSE sc.supports_discarded_packets

\* A variant that reads the flag of the other kind of message.
need_cs_of_other_kind(sc, type) ==
    IF type = "DISCARDED_EVENTS"
    THEN sc.discarded_packets_have_default_clock_snapshots
    ELSE sc.discarded_events_have_default_clock_snapshots

need_cs(sc, type) ==
    IF type = "DISCARDED_EVENTS"
    THEN sc.discarded_events_have_default_clock_snapshots
    ELSE sc.discarded_packets_have_default_clock_snapshots

SC_SUPPORTS_DISC_PRECOND_ID(type) ==
    IF type = "DISCARDED_EVENTS" THEN "stream-class-supports-discarded-events"
    ELSE "stream-class-supports-discarded-packets"

\* What a creation gives: `precond` is the id of the violated precondition
\* ("" when none), `ret` tells whether a message is returned (non-NULL),
\* `obj` is the object left in memory ("free": none was allocated; "leaked":
\* one was allocated that nothing refers to), `causes` the error causes
\* appended.
CreateResult(precond, ret, obj, causes) ==
    [precond |-> precond, ret |-> ret, obj |-> obj, causes |-> causes]

\* create_discarded_items_message()
create_discarded_items_message(sc, type, with_cs, beginning_raw_value, end_raw_value, fault) ==
    LET allocated == [FreeMsg EXCEPT !.type = type, !.holds_stream = TRUE]
        with_begin == [allocated EXCEPT !.default_begin_cs = <<beginning_raw_value>>]
        with_end == [with_begin EXCEPT !.default_end_cs = <<end_raw_value>>]
        built == IF with_cs THEN with_end ELSE allocated
    IN  IF ~has_support(sc, type)
        THEN CreateResult(SC_SUPPORTS_DISC_PRECOND_ID(type), FALSE, FreeMsg, 0)
        ELSE IF ~(IF need_cs(sc, type) THEN with_cs ELSE TRUE)
        THEN CreateResult("with-default-clock-snapshots", FALSE, FreeMsg, 0)
        ELSE IF ~(IF ~need_cs(sc, type) THEN ~with_cs ELSE TRUE)
        THEN CreateResult("without-default-clock-snapshots", FALSE, FreeMsg, 0)
        ELSE IF fault = "message"
        THEN CreateResult("", FALSE, FreeMsg, 1)
        ELSE IF with_cs /\ ~sc.default_clock_class
        THEN CreateResult("BT_ASSERT(stream_class->default_clock_class)",
                          FALSE, [allocated EXCEPT !.state = "leaked"], 0)
        ELSE IF with_cs /\ fault = "begin_cs"
        THEN \* error: returns NULL; the message and its stream reference stay
             CreateResult("", FALSE, [allocated EXCEPT !.state = "leaked"], 0)
        ELSE IF with_cs /\ fault = "end_cs"
        THEN CreateResult("", FALSE, [with_begin EXCEPT !.state = "leaked"], 0)
        ELSE CreateResult("", TRUE,
                [built EXCEPT !.state = "live",
                    !.count = bt_property_uint_init("NOT_AVAILABLE", 0)], 0)

\* A variant that wants the beginning strictly before the end.
CS_BEGIN_LT_END(begin, end) == begin < end

\* BT_ASSERT_PRE_MSG_CS_BEGIN_LE_END
BT_ASSERT_PRE_MSG_CS_BEGIN_LE_END(begin, end) == begin <= end

\* bt_message_discarded_{events,packets}_create_with_default_clock_snapshots()
create_with_default_clock_snapshots(sc, type, beginning_raw_value, end_raw_value, fault) ==
    IF ~BT_ASSERT_PRE_MSG_CS_BEGIN_LE_END(beginning_raw_value, end_raw_value)
    THEN CreateResult("beginning-default-clock-snapshot-lteq-end", FALSE,
                      FreeMsg, 0)
    ELSE create_discarded_items_message(sc, type, TRUE, beginning_raw_value,
                                        end_raw_value, fault)

\* bt_message_discarded_{events,packets}_create()
create_without_clock_snapshots(sc, type, fault) ==
    create_discarded_items_message(sc, type, FALSE, 0, 0, fault)

\* get_discarded_items_message_count(): the availability, and *count
get_discarded_items_message_count(message) ==
    [avail |-> message.count.avail, count |-> message.count.value]

\* A variant that gives the count whatever its availability.
count_without_availability_test(message) ==
    <<get_discarded_items_message_count(message).count>>

\* CommonDiscarded{Events,Packets}Message::count() const: the optional
\* count, <<>> being nullopt.
CommonDiscardedMessage_count(message) ==
    LET got == get_discarded_items_message_count(message)
    IN  IF got.avail = "AVAILABLE" THEN <<got.count>> ELSE <<>>

\* The model follows one message object at a time: the operations on a
\* message touch no other message.
Slots == {1}
FreeSlots == {i \in Slots : messages[i].state = "free"}
LiveSlots == {i \in Slots : messages[i].state = "live"}
FirstFree == CHOOSE i \in FreeSlots : \A j \in FreeSlots : i <= j

NoCall == [func |-> "none", type |-> "NONE", with_cs |-> FALSE,
           begin |-> 0, end |-> 0, fault |-> "none", slot |-> 0,
           count_arg |-> 0, outcome |-> "none", precond |-> "",
           avail |-> "NOT_AVAILABLE", value |-> 0, optional |-> <<>>]

\* The effect of a creation call on the state.
ApplyCreate(func, type, with_cs, begin, end, fault, r) ==
    LET slot == IF r.obj.state = "free" THEN 0 ELSE FirstFree
    IN  /\ error_causes + r.causes <= MaxCauses
        /\ messages' = IF slot = 0 THEN messages
                       ELSE [messages EXCEPT ![slot] = r.obj]
        /\ stream_ref_count' = IF r.obj.holds_stream
                               THEN stream_ref_count + 1 ELSE stream_ref_count
        /\ error_causes' = error_causes + r.causes
        /\ aborted' = IF r.precond # "" THEN r.precond ELSE "none"
        /\ msg_call' = [NoCall EXCEPT !.func = func, !.type = type,
                           !.with_cs = with_cs, !.begin = begin, !.end = end,
                           !.fault = fault,
                           !.slot = IF r.ret THEN slot ELSE 0,
                           !.outcome = IF r.precond # "" THEN "precondition"
                                       ELSE IF r.ret THEN "ok" ELSE "NULL"]
        /\ UNCHANGED stream_class

\* bt_message_discarded_events_create(), bt_message_discarded_packets_create()
bt_message_discarded_items_create ==
    /\ aborted = "none"
    /\ FreeSlots # {}
    /\ \E type \in DiscardedTypes, fault \in AllocFaults :
          ApplyCreate("create", type, FALSE, 0, 0, fault,
              create_without_clock_snapshots(stream_class, type, fault))
    /\ UNCHANGED <<phase, load, handle, plugins, plugin_set_refs,
                   comp_classes, component_class_list, components>>
    /\ UNCHANGED ext_vars

\* bt_message_discarded_events_create_with_default_clock_snapshots(),
\* bt_message_discarded_packets_create_with_default_clock_snapshots()
bt_message_discarded_items_create_with_default_clock_snapshots ==
    /\ aborted = "none"
    /\ FreeSlots # {}
    /\ \E type \in DiscardedTypes, fault \in AllocFaults,
          b \in 0..MaxRaw, e \in 0..MaxRaw :
          ApplyCreate("create_with_default_clock_snapshots", type, TRUE,
              b, e, fault,
              create_with_default_clock_snapshots(stream_class, type, b, e,
                                                  fault))
    /\ UNCHANGED <<phase, load, handle, plugins, plugin_set_refs,
                   comp_classes, component_class_list, components>>
    /\ UNCHANGED ext_vars

\* A variant that sets any count.
set_count_unchecked(message, count) ==
    [precond |-> "", count |-> bt_property_uint_set(count)]

\* The count property after bt_message_discarded_*_set_count(), or the
\* violated precondition.
set_count(message, count) ==
    IF ~(count > 0)
    THEN [precond |-> "count-gt-0", count |-> message.count]
    ELSE [precond |-> "", count |-> bt_property_uint_set(count)]

\* bt_message_discarded_events_set_count(),
\* bt_message_discarded_packets_set_count()
bt_message_discarded_items_set_count ==
    /\ aborted = "none"
    /\ \E slot \in LiveSlots, count \in 0..MaxCount :
          LET r == set_count(messages[slot], count)
          IN  /\ messages' = [messages EXCEPT ![slot].count = r.count]
              /\ aborted' = IF r.precond # "" THEN r.precond ELSE "none"
              /\ msg_call' = [NoCall EXCEPT !.func = "set_count",
                                 !.type = messages[slot].type,
                                 !.slot = slot, !.count_arg = count,
                                 !.outcome = IF r.precond # ""
                                             THEN "precondition" ELSE "ok"]
    /\ UNCHANGED <<stream_class, stream_ref_count, error_causes>>
    /\ UNCHANGED <<phase, load, handle, plugins, plugin_set_refs,
                   comp_classes, component_class_list, components>>
    /\ UNCHANGED ext_vars

\* bt_message_discarded_events_get_count(),
\* bt_message_discarded_packets_get_count(), and the C++ count() over them
bt_message_discarded_items_get_count ==
    /\ aborted = "none"
    /\ \E slot \in LiveSlots :
          LET got == get_discarded_items_message_count(messages[slot])
          IN  msg_call' = [NoCall EXCEPT !.func = "get_count",
                              !.type = messages[slot].type,
                              !.slot = slot, !.outcome = "ok",
                              !.avail = got.avail, !.value = got.count,
                              !.optional =
                                  CommonDiscardedMessage_count(messages[slot])]
    /\ UNCHANGED <<stream_class, stream_ref_count, messages, error_causes,
                   aborted>>
    /\ UNCHANGED <<phase, load, handle, plugins, plugin_set_refs,
                   comp_classes, component_class_list, components>>
    /\ UNCHANGED ext_vars

\* destroy_discarded_items_message(): the message after its destruction
\* (the stream reference is put, the snapshots are recycled, the memory
\* is freed).
destroy_discarded_items_message(message) == FreeMsg

\* The last reference to a message is put.
bt_message_put_ref ==
    /\ aborted = "none"
    /\ \E slot \in LiveSlots :
          /\ messages' = [messages EXCEPT
                 ![slot] = destroy_discarded_items_message(messages[slot])]
          /\ stream_ref_count' = stream_ref_count - 1
          /\ msg_call' = [NoCall EXCEPT !.func = "put_ref", !.slot = slot,
                             !.type = messages[slot].type, !.outcome = "ok"]
    /\ UNCHANGED <<stream_class, error_causes, aborted>>
    /\ UNCHANGED <<phase, load, handle, plugins, plugin_set_refs,
                   comp_classes, component_class_list, components>>
    /\ UNCHANGED ext_vars


(***************************************************************************)
(*                          PLUGIN LOADER                                  *)
(***************************************************************************)

\* ---- file path suffixes (C strings: the terminating NUL counts in sizeof)
NUL == "\\0"
CStr(chars) == chars \o <<NUL>>
sizeof(chars) == Len(chars) + 1
strlen(chars) == Len(chars)
bt_max_t(a, b) == IF a > b THEN a ELSE b

G_MODULE_SUFFIX == <<"s", "o">>
NATIVE_PLUGIN_SUFFIX == <<".">> \o G_MODULE_SUFFIX
NATIVE_PLUGIN_SUFFIX_LEN == sizeof(NATIVE_PLUGIN_SUFFIX)
LIBTOOL_PLUGIN_SUFFIX == <<".", "l", "a">>
LIBTOOL_PLUGIN_SUFFIX_LEN == sizeof(LIBTOOL_PLUGIN_SUFFIX)
PLUGIN_SUFFIX_LEN ==
    bt_max_t(sizeof(NATIVE_PLUGIN_SUFFIX), sizeof(LIBTOOL_PLUGIN_SUFFIX))

\* strncmp(s1, s2 + off, n) = 0, s1 and s2 being NUL-terminated: the first
\* n characters are equal, or the strings are equal up to their NUL.
RECURSIVE strncmp_eq(_, _, _, _, _)
strncmp_eq(s1, s2, off, n, i) ==
    IF i > n THEN TRUE
    ELSE IF s1[i] # s2[off + i] THEN FALSE
    ELSE IF s1[i] = NUL THEN TRUE
    ELSE strncmp_eq(s1, s2, off, n, i + 1)

\* The suffix tests of bt_plugin_so_create_all_from_file(), path_len being
\* strlen(path) + 1 there.
is_libtool_wrapper(path) ==
    strncmp_eq(CStr(LIBTOOL_PLUGIN_SUFFIX), CStr(path),
               (strlen(path) + 1) - LIBTOOL_PLUGIN_SUFFIX_LEN,
               LIBTOOL_PLUGIN_SUFFIX_LEN, 1)
is_shared_object(path) ==
    strncmp_eq(CStr(NATIVE_PLUGIN_SUFFIX), CStr(path),
               (strlen(path) + 1) - NATIVE_PLUGIN_SUFFIX_LEN,
               NATIVE_PLUGIN_SUFFIX_LEN, 1)

\* The path test that opens bt_plugin_so_create_all_from_file(): is the
\* path taken for a shared object plugin file?
path_is_plugin_file(path) ==
    IF strlen(path) <= PLUGIN_SUFFIX_LEN THEN FALSE
    ELSE is_shared_object(path) \/ is_libtool_wrapper(path)

\* ---- descriptors found in a shared object's sections
\* A plugin descriptor with the plugin descriptor attributes and the
\* component class descriptors attached to it; a component class
\* descriptor with the types of the attributes attached to it.
Attr(type, value) == [type |-> type, value |-> value]
CcDescr(type, attrs) == [type |-> type, attrs |-> attrs]
Descr(attrs, ccs) == [null |-> FALSE, attrs |-> attrs, ccs |-> ccs]
NullDescr == [null |-> TRUE, attrs |-> <<>>, ccs |-> <<>>]

KnownPluginAttrTypes == {"INIT", "EXIT", "AUTHOR", "LICENSE", "DESCRIPTION",
                         "VERSION"}
CompClassTypes == {"SOURCE", "FILTER", "SINK"}

\* The component class types each method attribute is legal for.
MethodAttrCompClassTypes(attr_type) ==
    CASE attr_type \in {"GET_SUPPORTED_MIP_VERSIONS_METHOD",
                        "INITIALIZE_METHOD", "FINALIZE_METHOD",
                        "QUERY_METHOD"} -> {"SOURCE", "FILTER", "SINK"}
      [] attr_type = "INPUT_PORT_CONNECTED_METHOD" -> {"FILTER", "SINK"}
      [] attr_type = "OUTPUT_PORT_CONNECTED_METHOD" -> {"SOURCE", "FILTER"}
      [] attr_type = "GRAPH_IS_CONFIGURED_METHOD" -> {"SINK"}
      [] attr_type \in {"MSG_ITER_INITIALIZE_METHOD",
                        "MSG_ITER_FINALIZE_METHOD",
                        "MSG_ITER_SEEK_NS_FROM_ORIGIN_METHOD",
                        "MSG_ITER_SEEK_BEGINNING_METHOD",
                        "MSG_ITER_CAN_SEEK_NS_FROM_ORIGIN_METHOD",
                        "MSG_ITER_CAN_SEEK_BEGINNING_METHOD"} ->
                            {"SOURCE", "FILTER"}
      [] OTHER -> {}
MethodAttrTypes ==
    {"GET_SUPPORTED_MIP_VERSIONS_METHOD", "INITIALIZE_METHOD",
     "FINALIZE_METHOD", "QUERY_METHOD", "INPUT_PORT_CONNECTED_METHOD",
     "OUTPUT_PORT_CONNECTED_METHOD", "GRAPH_IS_CONFIGURED_METHOD",
     "MSG_ITER_INITIALIZE_METHOD", "MSG_ITER_FINALIZE_METHOD",
     "MSG_ITER_SEEK_NS_FROM_ORIGIN_METHOD", "MSG_ITER_SEEK_BEGINNING_METHOD",
     "MSG_ITER_CAN_SEEK_NS_FROM_ORIGIN_METHOD",
     "MSG_ITER_CAN_SEEK_BEGINNING_METHOD"}

\* F(e), with e evaluated once.
Once(e, F(_)) == CHOOSE r \in {F(x) : x \in {e}} : TRUE

\* ---- the objects
NoHandle == [state |-> "none", ref_count |-> 0, has_path |-> FALSE,
             module |-> "none", init_called |-> FALSE, exit |-> 0,
             exit_calls |-> <<>>]

\* The memory the load works on: the shared library handle, the component
\* classes created (by id), the global component class list, the causes
\* appended to the thread's error, the warnings logged, the init functions
\* called, whether g_module_open() was tried, and the abort reason.
World0 == [handle |-> NoHandle, ccs |-> <<>>, list |-> {}, causes |-> 0,
           log |-> {}, init_calls |-> <<>>, open_tried |-> FALSE,
           abort |-> "none"]

\* bt_plugin_so_shared_lib_handle_destroy(): the user's exit function is
\* called, then the module is closed.  (The debug build's
\* LIBBABELTRACE2_NO_DLCLOSE switch is not modelled.)
bt_plugin_so_shared_lib_handle_destroy(h) ==
    [h EXCEPT !.state = "destroyed",
              !.exit_calls = IF h.init_called /\ h.exit # 0
                             THEN Append(@, h.exit) ELSE @,
              !.module = IF h.module = "open" THEN "closed" ELSE @]

\* bt_object_put_ref() on the shared library handle
HandlePut(W) ==
    IF W.handle.ref_count = 1
    THEN [W EXCEPT !.handle = bt_plugin_so_shared_lib_handle_destroy(
                                  [W.handle EXCEPT !.ref_count = 0])]
    ELSE [W EXCEPT !.handle.ref_count = @ - 1]

\* A destroy listener that releases the reference and leaves the class in
\* the list.
destroy_listener_keeping_list_entry(W, id) == HandlePut(W)

\* plugin_comp_class_destroy_listener()
plugin_comp_class_destroy_listener(W, id) ==
    Once([W EXCEPT !.list = @ \ {id}, !.ccs[id].so_handle = FALSE],
         LAMBDA W1 : HandlePut(W1))

\* bt_object_put_ref() on a component class: at zero it is destroyed,
\* which calls its destroy listeners.
CompClassPut(W, id) ==
    IF W.ccs[id].ref_count = 1
    THEN Once([W EXCEPT !.ccs[id].ref_count = 0, !.ccs[id].destroyed = TRUE],
              LAMBDA W1 : IF W.ccs[id].listener
                          THEN plugin_comp_class_destroy_listener(W1, id)
                          ELSE W1)
    ELSE [W EXCEPT !.ccs[id].ref_count = @ - 1]

RECURSIVE CompClassPutAll(_, _, _)
CompClassPutAll(W, ids, i) ==
    IF i > Len(ids) THEN W
    ELSE Once(CompClassPut(W, ids[i]),
              LAMBDA W1 : CompClassPutAll(W1, ids, i + 1))

\* bt_plugin_so_destroy_spec_data()
bt_plugin_so_destroy_spec_data(W) == HandlePut(W)

\* The destructor of a plugin: its specific data, then its component
\* classes.
PluginDestroy(W, plugin) ==
    Once(bt_plugin_so_destroy_spec_data(W),
         LAMBDA W1 : CompClassPutAll(W1, plugin.comp_classes, 1))

\* The destructor of a plugin set: the reference on each plugin is put.
RECURSIVE PluginSetDestroy(_, _, _)
PluginSetDestroy(W, set, i) ==
    IF i > Len(set) THEN W
    ELSE Once(PluginDestroy(W, set[i]),
              LAMBDA W1 : PluginSetDestroy(W1, set, i + 1))

\* A variant in which the component class takes no reference on the
\* shared library handle.
on_add_component_class_without_handle_ref(W, id) ==
    [W EXCEPT !.list = @ \cup {id},
              !.ccs[id].so_handle = TRUE,
              !.ccs[id].listener = TRUE]

\* bt_plugin_so_on_add_component_class()
bt_plugin_so_on_add_component_class(W, id) ==
    [W EXCEPT !.list = @ \cup {id},
              !.ccs[id].so_handle = TRUE,
              !.handle.ref_count = @ + 1,
              !.ccs[id].listener = TRUE]

\* bt_plugin_add_component_class(): the plugin takes a reference on the
\* class, and a shared object plugin is told.
bt_plugin_add_component_class(W, id) ==
    bt_plugin_so_on_add_component_class(
        [W EXCEPT !.ccs[id].ref_count = @ + 1], id)


\* ---- bt_plugin_so_init()
\* The state of one bt_plugin_so_init() call: the memory, the init function
\* found (<<>>: none; <<st>>: one that returns st), the status, whether
\* the function reached `end`, and the ids of the component classes added
\* to the plugin.
InitState(W) == [W |-> W, init |-> <<>>, status |-> BT_FUNC_STATUS_OK,
                 stop |-> FALSE, added |-> <<>>]

\* A variant that only warns, whatever fail_on_load_error is.
UnknownItem_only_warns(S, fail_on_load_error, tag) ==
    [S EXCEPT !.W.log = @ \cup {tag}]

\* The `default:` branch of the attribute switches: a hard error when
\* fail_on_load_error is set, a warning otherwise.
UnknownItem(S, fail_on_load_error, tag) ==
    IF fail_on_load_error
    THEN [S EXCEPT !.W.causes = @ + 1, !.W.log = @ \cup {tag},
                   !.status = BT_FUNC_STATUS_ERROR, !.stop = TRUE]
    ELSE [S EXCEPT !.W.log = @ \cup {tag}]

\* One plugin descriptor attribute (step 1 of bt_plugin_so_init()).
PluginAttrStep(S, attr, descriptor, fail_on_load_error) ==
    CASE attr.type = "INIT" -> [S EXCEPT !.init = <<attr.value>>]
      [] attr.type = "EXIT" -> [S EXCEPT !.W.handle.exit = descriptor]
      [] attr.type \in KnownPluginAttrTypes \ {"INIT", "EXIT"} -> S
      [] OTHER -> UnknownItem(S, fail_on_load_error, "unknown-plugin-attr")

RECURSIVE PluginAttrsLoop(_, _, _, _, _)
PluginAttrsLoop(S, attrs, i, descriptor, fail_on_load_error) ==
    IF S.stop \/ i > Len(attrs) THEN S
    ELSE Once(PluginAttrStep(S, attrs[i], descriptor, fail_on_load_error),
              LAMBDA S1 : PluginAttrsLoop(S1, attrs, i + 1, descriptor,
                                          fail_on_load_error))

\* One component class descriptor attribute (step 3): a method attribute
\* of a component class type that has no such method is bt_common_abort().
CcAttrStep(S, cc_type, attr_type, fail_on_load_error) ==
    CASE attr_type \in {"DESCRIPTION", "HELP"} -> S
      [] attr_type \in MethodAttrTypes ->
            IF cc_type \in MethodAttrCompClassTypes(attr_type) THEN S
            ELSE [S EXCEPT !.W.abort = "bt_common_abort", !.stop = TRUE]
      [] OTHER -> UnknownItem(S, fail_on_load_error, "unknown-cc-attr")

RECURSIVE CcAttrsLoop(_, _, _, _, _)
CcAttrsLoop(S, ccs, c, a, fail_on_load_error) ==
    IF S.stop \/ c > Len(ccs) THEN S
    ELSE IF a > Len(ccs[c].attrs)
    THEN CcAttrsLoop(S, ccs, c + 1, 1, fail_on_load_error)
    ELSE Once(CcAttrStep(S, ccs[c].type, ccs[c].attrs[a], fail_on_load_error),
              LAMBDA S1 : CcAttrsLoop(S1, ccs, c, a + 1, fail_on_load_error))

\* The call of the user's plugin initialization function (step 4).
PluginInitStep(S, descriptor, fail_on_load_error) ==
    IF S.stop \/ S.init = <<>> THEN S
    ELSE LET init_status == S.init[1]
             S1 == [S EXCEPT !.W.init_calls =
                        Append(@, [descriptor |-> descriptor,
                                   status |-> init_status])]
         IN  IF init_status < 0
             THEN IF fail_on_load_error
                  THEN [S1 EXCEPT !.W.causes = @ + 1,
                                  !.W.log = @ \cup {"init-failed"},
                                  !.status = init_status, !.stop = TRUE]
                  ELSE [S1 EXCEPT !.W.log = @ \cup {"init-failed"},
                                  !.status = BT_FUNC_STATUS_NOT_FOUND,
                                  !.stop = TRUE]
             ELSE S1

MemoryError(S) ==
    [S EXCEPT !.W.causes = @ + 1, !.status = BT_FUNC_STATUS_MEMORY_ERROR,
              !.stop = TRUE]

NewCompClass(type, descriptor) ==
    [type |-> type, descriptor |-> descriptor, ref_count |-> 1,
     so_handle |-> FALSE, listener |-> FALSE, destroyed |-> FALSE]

\* One component class descriptor of the plugin (step 5): the class is
\* created and added to the plugin.  The message of an unknown type reads
\* the handle's path without testing it for NULL: with no path (the
\* statically linked sections) that is a NULL dereference, a crash
\* wherever the message is formatted (always when a cause is appended,
\* and when warnings are logged otherwise).
CompClassStep(S, cc, descriptor, fail_on_load_error, env) ==
    IF cc.type \in {"SOURCE", "FILTER"} /\ env.fault = "msg_iter_class_alloc"
    THEN MemoryError(S)
    ELSE IF cc.type \notin CompClassTypes
    THEN IF ~S.W.handle.has_path /\ (fail_on_load_error \/ env.logw)
         THEN [S EXCEPT !.W.abort = "NULL dereference", !.stop = TRUE]
         ELSE UnknownItem(S, fail_on_load_error, "unknown-cc-type")
    ELSE IF env.fault = "comp_class_alloc"
    THEN MemoryError(S)
    ELSE IF env.fault = "add_comp_class"
    THEN \* bt_plugin_add_component_class() fails: the class is destroyed
         MemoryError(S)
    ELSE LET id == Len(S.W.ccs) + 1
         IN  Once([S.W EXCEPT !.ccs = Append(@, NewCompClass(cc.type,
                                                               descriptor))],
             LAMBDA W1 :
             Once(bt_plugin_add_component_class(W1, id),
             LAMBDA W2 :
             \* BT_OBJECT_PUT_REF_AND_RESET(comp_class)
             Once(CompClassPut(W2, id),
             LAMBDA W3 :
             [S EXCEPT !.W = W3, !.added = Append(@, id)])))

RECURSIVE CompClassesLoop(_, _, _, _, _, _)
CompClassesLoop(S, ccs, i, descriptor, fail_on_load_error, env) ==
    IF S.stop \/ i > Len(ccs) THEN S
    ELSE Once(CompClassStep(S, ccs[i], descriptor, fail_on_load_error, env),
              LAMBDA S1 : CompClassesLoop(S1, ccs, i + 1, descriptor,
                                          fail_on_load_error, env))

\* bt_plugin_so_init(): descriptor is the index of the plugin descriptor d
\* in its section.  Gives the final InitState.
bt_plugin_so_init(W, fail_on_load_error, descriptor, d, env) ==
    IF env.fault = "full_descriptors_alloc" THEN MemoryError(InitState(W))
    ELSE
    Once(PluginAttrsLoop(InitState(W), d.attrs, 1, descriptor,
                         fail_on_load_error),
    LAMBDA S1 :
    Once(CcAttrsLoop(S1, d.ccs, 1, 1, fail_on_load_error),
    LAMBDA S2 :
    Once(PluginInitStep(S2, descriptor, fail_on_load_error),
    LAMBDA S3 :
    Once(IF S3.stop THEN S3
         ELSE [S3 EXCEPT !.W.handle.init_called = TRUE],
    LAMBDA S4 :
    CompClassesLoop(S4, d.ccs, 1, descriptor, fail_on_load_error, env)))))

\* ---- bt_plugin_so_create_all_from_sections()
\* The state of the loop on the plugin descriptors: the memory, the status,
\* the plugins of the plugin set so far, and where the loop left to
\* ("loop": still looping; "error": the error label; "abort").
LoopState(W) == [W |-> W, status |-> BT_FUNC_STATUS_OK, set |-> <<>>,
                 at |-> "loop"]

\* One plugin descriptor of the section.
DescriptorStep(L, descriptor, d, fail_on_load_error, env) ==
    IF d.null THEN L
    ELSE IF env.fault = "plugin_alloc"
    THEN \* bt_plugin_so_create_empty() fails
         [L EXCEPT !.W.causes = @ + 1,
                   !.status = BT_FUNC_STATUS_MEMORY_ERROR, !.at = "error"]
    ELSE \* bt_plugin_so_create_empty() takes a handle reference
         Once([L.W EXCEPT !.handle.ref_count = @ + 1],
         LAMBDA W1 :
         Once(bt_plugin_so_init(W1, fail_on_load_error, descriptor, d, env),
         LAMBDA S :
         LET plugin == [descriptor |-> descriptor, comp_classes |-> S.added]
         IN  IF S.W.abort # "none"
             THEN [L EXCEPT !.W = S.W, !.at = "abort"]
             ELSE IF S.status = BT_FUNC_STATUS_OK
             THEN [L EXCEPT !.W = S.W, !.status = S.status,
                            !.set = Append(@, plugin)]
             ELSE IF S.status < 0
             THEN [L EXCEPT !.W = PluginDestroy(
                                     [S.W EXCEPT !.causes = @ + 1], plugin),
                            !.status = S.status, !.at = "error"]
             ELSE \* neither branch puts the plugin: BT_ASSERT(!plugin)
                  [L EXCEPT !.W = [S.W EXCEPT !.abort = "BT_ASSERT(!plugin)"],
                            !.status = S.status, !.at = "abort"]))

RECURSIVE DescriptorsLoop(_, _, _, _, _)
DescriptorsLoop(L, descriptors, i, fail_on_load_error, env) ==
    IF L.at # "loop" \/ i > Len(descriptors) THEN L
    ELSE Once(DescriptorStep(L, i, descriptors[i], fail_on_load_error, env),
              LAMBDA L1 : DescriptorsLoop(L1, descriptors, i + 1,
                                          fail_on_load_error, env))

\* What a load gives: the memory, the status, and the plugin set handed
\* back through plugin_set_out (set_out tells whether it is non-NULL).
LoadResult(W, status, set_out, set) ==
    [W |-> W, status |-> status, set_out |-> set_out, set |-> set]

\* A variant that appends no cause when the plugin set cannot be made.
create_all_from_sections_without_cause(W, fail_on_load_error, descriptors, env) ==
    IF env.fault = "plugin_set_alloc"
    THEN LoadResult(W, BT_FUNC_STATUS_MEMORY_ERROR, FALSE, <<>>)
    ELSE Once(DescriptorsLoop(LoopState(W), descriptors, 1,
                              fail_on_load_error, env),
         LAMBDA L :
             IF L.at = "abort"
             THEN LoadResult(L.W, L.status, TRUE, L.set)
             ELSE IF L.at = "error"
             THEN LoadResult(PluginSetDestroy(L.W, L.set, 1), L.status,
                             FALSE, <<>>)
             ELSE IF Len(L.set) = 0
             THEN LoadResult(L.W, BT_FUNC_STATUS_NOT_FOUND, FALSE, <<>>)
             ELSE LoadResult(L.W, L.status, TRUE, L.set))

\* A variant that hands back the plugin set even when it is empty.
create_all_from_sections_keeping_empty_set(W, fail_on_load_error, descriptors, env) ==
    IF env.fault = "plugin_set_alloc"
    THEN LoadResult([W EXCEPT !.causes = @ + 1],
                    BT_FUNC_STATUS_MEMORY_ERROR, FALSE, <<>>)
    ELSE Once(DescriptorsLoop(LoopState(W), descriptors, 1,
                              fail_on_load_error, env),
         LAMBDA L :
             IF L.at = "abort"
             THEN LoadResult(L.W, L.status, TRUE, L.set)
             ELSE IF L.at = "error"
             THEN LoadResult(PluginSetDestroy(L.W, L.set, 1), L.status,
                             FALSE, <<>>)
             ELSE LoadResult(L.W, L.status, TRUE, L.set))

\* bt_plugin_so_create_all_from_sections()
bt_plugin_so_create_all_from_sections(W, fail_on_load_error, descriptors, env) ==
    IF env.fault = "plugin_set_alloc"
    THEN LoadResult([W EXCEPT !.causes = @ + 1],
                    BT_FUNC_STATUS_MEMORY_ERROR, FALSE, <<>>)
    ELSE Once(DescriptorsLoop(LoopState(W), descriptors, 1,
                              fail_on_load_error, env),
         LAMBDA L :
             IF L.at = "abort"
             THEN LoadResult(L.W, L.status, TRUE, L.set)
             ELSE IF L.at = "error"
             THEN \* error: BT_OBJECT_PUT_REF_AND_RESET(*plugin_set_out)
                  LoadResult(PluginSetDestroy(L.W, L.set, 1), L.status,
                             FALSE, <<>>)
             ELSE IF Len(L.set) = 0
             THEN LoadResult(L.W, BT_FUNC_STATUS_NOT_FOUND, FALSE, <<>>)
             ELSE LoadResult(L.W, L.status, TRUE, L.set))


\* ---- the loads
\* A variant that appends a cause when the module cannot be opened.
handle_create_with_cause_on_open_failure(W, has_path, env) ==
    LET created == [NoHandle EXCEPT !.state = "live", !.ref_count = 1]
        W1 == [W EXCEPT !.handle = created]
        W2 == [W1 EXCEPT !.open_tried = TRUE]
    IN  IF env.fault = "handle_alloc"
        THEN [W |-> [W EXCEPT !.causes = @ + 1],
              status |-> BT_FUNC_STATUS_MEMORY_ERROR, non_null |-> FALSE]
        ELSE IF ~has_path
        THEN [W |-> W1, status |-> BT_FUNC_STATUS_OK, non_null |-> TRUE]
        ELSE IF env.fault = "gstring_alloc"
        THEN [W |-> [W1 EXCEPT !.causes = @ + 1],
              status |-> BT_FUNC_STATUS_MEMORY_ERROR, non_null |-> TRUE]
        ELSE IF env.fault = "module_open"
        THEN [W |-> HandlePut([W2 EXCEPT !.causes = @ + 1]),
              status |-> BT_FUNC_STATUS_NOT_FOUND, non_null |-> FALSE]
        ELSE [W |-> [W2 EXCEPT !.handle.has_path = TRUE,
                               !.handle.module = "open"],
              status |-> BT_FUNC_STATUS_OK, non_null |-> TRUE]

\* bt_plugin_so_shared_lib_handle_create(): the memory, the status and
\* whether *shared_lib_handle is left non-NULL.  has_path tells whether
\* a path is given (the statically linked sections have none).
bt_plugin_so_shared_lib_handle_create(W, has_path, env) ==
    LET created == [NoHandle EXCEPT !.state = "live", !.ref_count = 1]
        W1 == [W EXCEPT !.handle = created]
        W2 == [W1 EXCEPT !.open_tried = TRUE]
    IN  IF env.fault = "handle_alloc"
        THEN [W |-> [W EXCEPT !.causes = @ + 1],
              status |-> BT_FUNC_STATUS_MEMORY_ERROR, non_null |-> FALSE]
        ELSE IF ~has_path
        THEN [W |-> W1, status |-> BT_FUNC_STATUS_OK, non_null |-> TRUE]
        ELSE IF env.fault = "gstring_alloc"
        THEN [W |-> [W1 EXCEPT !.causes = @ + 1],
              status |-> BT_FUNC_STATUS_MEMORY_ERROR, non_null |-> TRUE]
        ELSE IF env.fault = "module_open"
        THEN [W |-> HandlePut(W2), status |-> BT_FUNC_STATUS_NOT_FOUND,
              non_null |-> FALSE]
        ELSE [W |-> [W2 EXCEPT !.handle.has_path = TRUE,
                               !.handle.module = "open"],
              status |-> BT_FUNC_STATUS_OK, non_null |-> TRUE]

\* A symbol of the second kind is missing, or the two symbols of a section
\* do not come together.
SymbolFaults == {"no_end_descr_sym", "attrs_sym_mismatch",
                 "cc_descr_sym_mismatch", "cc_attrs_sym_mismatch"}

\* bt_plugin_so_create_all_from_file(); `end` puts the handle reference.
bt_plugin_so_create_all_from_file(W, path, fail_on_load_error, descriptors, env) ==
    IF ~path_is_plugin_file(path)
    THEN LoadResult(W, BT_FUNC_STATUS_NOT_FOUND, FALSE, <<>>)
    ELSE Once(bt_plugin_so_shared_lib_handle_create(W, TRUE, env),
         LAMBDA H :
             IF H.status # BT_FUNC_STATUS_OK
             THEN IF H.non_null
                  THEN LoadResult(
                          [H.W EXCEPT !.abort = "BT_ASSERT(!shared_lib_handle)"],
                          H.status, FALSE, <<>>)
                  ELSE LoadResult(H.W, H.status, FALSE, <<>>)
             ELSE IF env.fault = "no_begin_descr_sym"
             THEN LoadResult(HandlePut(H.W), BT_FUNC_STATUS_NOT_FOUND, FALSE,
                             <<>>)
             ELSE IF env.fault \in SymbolFaults
             THEN IF fail_on_load_error
                  THEN LoadResult(
                          HandlePut([H.W EXCEPT !.causes = @ + 1,
                                       !.log = @ \cup {"symbol"}]),
                          BT_FUNC_STATUS_ERROR, FALSE, <<>>)
                  ELSE LoadResult(
                          HandlePut([H.W EXCEPT !.log = @ \cup {"symbol"}]),
                          BT_FUNC_STATUS_NOT_FOUND, FALSE, <<>>)
             ELSE Once(bt_plugin_so_create_all_from_sections(
                           H.W, fail_on_load_error, descriptors, env),
                  LAMBDA R :
                      IF R.W.abort # "none" THEN R
                      ELSE [R EXCEPT !.W = HandlePut(R.W)]))

\* bt_plugin_so_create_all_from_static()
bt_plugin_so_create_all_from_static(W, fail_on_load_error, descriptors, env) ==
    Once(bt_plugin_so_shared_lib_handle_create(W, FALSE, env),
    LAMBDA H :
        IF H.status # BT_FUNC_STATUS_OK
        THEN LoadResult(H.W, H.status, FALSE, <<>>)
        ELSE Once(bt_plugin_so_create_all_from_sections(
                      H.W, fail_on_load_error, descriptors, env),
             LAMBDA R :
                 IF R.W.abort # "none" THEN R
                 ELSE IF ~((R.status = BT_FUNC_STATUS_OK /\ R.set_out
                            /\ Len(R.set) > 0) \/ ~R.set_out)
                 THEN [R EXCEPT !.W.abort = "BT_ASSERT(status, plugin set)"]
                 ELSE [R EXCEPT !.W = HandlePut(R.W)]))

\* ---- the inputs of a load
MaxDescr == 2       \* plugin descriptors in a section
MaxPathLen == 5     \* characters in a file path

\* Descriptors are made of these.  A plugin descriptor attribute is an
\* initialization function (its value is the status the function
\* returns), an exit function, or an attribute of a type this version of
\* the library does not know ("FUTURE"); a component class descriptor
\* has a type and the types of its attributes.
InitOk == Attr("INIT", BT_FUNC_STATUS_OK)
InitFails == Attr("INIT", BT_FUNC_STATUS_ERROR)
Exit == Attr("EXIT", 0)
SinkClass == CcDescr("SINK", <<"DESCRIPTION">>)
SourceClass == CcDescr("SOURCE", <<"MSG_ITER_INITIALIZE_METHOD">>)

\* Plugin descriptors this version of the library knows all about, and
\* whose initialization succeeds.
GoodDescriptors ==
    {Descr(attrs, ccs) : attrs \in {<<>>, <<InitOk, Exit>>},
                         ccs \in {<<>>, <<SinkClass>>}}
    \cup {Descr(<<InitOk, Exit>>, <<SinkClass, SourceClass>>)}

\* Plugin descriptors with an anomaly: a failing initialization, an
\* unknown plugin descriptor attribute, an unknown component class
\* descriptor attribute, an unknown component class type (with and
\* without a method attribute), a method the component class type has not.
OddDescriptors ==
    {Descr(attrs, <<SinkClass>>) :
        attrs \in {<<InitFails>>, <<InitFails, Exit>>,
                   <<Attr("FUTURE", 0), InitOk>>}}
    \cup {Descr(<<InitOk, Exit>>, <<cc>>) :
        cc \in {CcDescr("SINK", <<"FUTURE">>),
                CcDescr("FUTURE", <<"DESCRIPTION">>),
                CcDescr("FUTURE", <<"INITIALIZE_METHOD">>),
                CcDescr("SINK", <<"OUTPUT_PORT_CONNECTED_METHOD">>)}}

PluginDescriptors == {NullDescr} \cup GoodDescriptors \cup OddDescriptors

\* The plugin descriptor sections a shared object (or the program) can have.
Sections == UNION {[1..n -> PluginDescriptors] : n \in 0..MaxDescr}

\* What the environment does to the load: the allocation or the symbol
\* lookup that fails, and whether warnings are logged.
Faults == {"none", "handle_alloc", "gstring_alloc", "module_open",
           "no_begin_descr_sym", "plugin_set_alloc", "plugin_alloc",
           "full_descriptors_alloc", "msg_iter_class_alloc",
           "comp_class_alloc", "add_comp_class"} \cup SymbolFaults
Envs == [fault : Faults, logw : BOOLEAN]

\* The file paths: the plugin file of the loads, and all short paths.
PathChars == {".", "s", "o", "l", "a"}
Paths == UNION {[1..n -> PathChars] : n \in 0..MaxPathLen}
PluginPath == <<"a", "a", ".", "s", "o">>


(***************************************************************************)
(*                    THE PLUGIN LOADER'S OPERATIONS                       *)
(***************************************************************************)
\* The memory of the operators above, from and to the variables.
ToWorld == [World0 EXCEPT !.handle = handle, !.ccs = comp_classes,
                          !.list = component_class_list,
                          !.causes = error_causes]
FromWorld(W) ==
    /\ handle' = W.handle
    /\ comp_classes' = W.ccs
    /\ component_class_list' = W.list
    /\ error_causes' = W.causes

NoLoad == [func |-> "none", path |-> <<>>, fail_on_load_error |-> FALSE,
           status |-> 0, set_out |-> FALSE, log |-> {}, init_calls |-> <<>>,
           open_tried |-> FALSE, fault |-> "none"]

\* A plugin of the plugin set given to the caller: the set holds one
\* reference on it, and the caller may hold another one.
PluginEntry(plugin) ==
    [descriptor |-> plugin.descriptor, comp_classes |-> plugin.comp_classes,
     user_ref |-> FALSE, destroyed |-> FALSE]

\* The effect of a load on the state.
ApplyLoad(func, path, fail_on_load_error, fault, R) ==
    /\ phase' = "loaded"
    /\ FromWorld(R.W)
    /\ aborted' = R.W.abort
    /\ plugins' = [i \in 1..Len(R.set) |-> PluginEntry(R.set[i])]
    /\ plugin_set_refs' = IF R.set_out /\ R.W.abort = "none" THEN 1 ELSE 0
    /\ load' = [func |-> func, path |-> path,
                fail_on_load_error |-> fail_on_load_error,
                status |-> R.status,
                set_out |-> R.set_out /\ R.W.abort = "none",
                log |-> R.W.log, init_calls |-> R.W.init_calls,
                open_tried |-> R.W.open_tried, fault |-> fault]
    /\ UNCHANGED <<components, stream_class, stream_ref_count, messages,
                   msg_call>>
    /\ UNCHANGED ext_vars

\* A call of bt_plugin_so_create_all_from_file() on a plugin file path.
Call_bt_plugin_so_create_all_from_file ==
    /\ phase = "start" /\ aborted = "none"
    /\ \E fail_on_load_error \in BOOLEAN, descriptors \in Sections,
          fault \in Faults :
          \E R \in {bt_plugin_so_create_all_from_file(ToWorld, PluginPath,
                        fail_on_load_error, descriptors,
                        [fault |-> fault, logw |-> TRUE])} :
              ApplyLoad("from_file", PluginPath, fail_on_load_error, fault, R)

\* A call of bt_plugin_so_create_all_from_static().
Call_bt_plugin_so_create_all_from_static ==
    /\ phase = "start" /\ aborted = "none"
    /\ \E fail_on_load_error \in BOOLEAN, descriptors \in Sections,
          env \in Envs :
          \E R \in {bt_plugin_so_create_all_from_static(ToWorld,
                        fail_on_load_error, descriptors, env)} :
              ApplyLoad("from_static", <<>>, fail_on_load_error, env.fault, R)

\* The files tried on the short paths: one with a plugin, one with none.
PathSections == {<<>>, <<Descr(<<>>, <<CcDescr("SINK", <<"DESCRIPTION">>)>>)>>}
PathFaults == {"none", "module_open"}

\* A call of bt_plugin_so_create_all_from_file() on any path.
Call_bt_plugin_so_create_all_from_file_on_path ==
    /\ phase = "start" /\ aborted = "none"
    /\ \E path \in Paths, fail_on_load_error \in BOOLEAN,
          descriptors \in PathSections, fault \in PathFaults :
          \E R \in {bt_plugin_so_create_all_from_file(ToWorld, path,
                        fail_on_load_error, descriptors,
                        [fault |-> fault, logw |-> TRUE])} :
              ApplyLoad("from_file", path, fail_on_load_error, fault, R)

\* The plugins that die when the reference `dropped` goes: those nothing
\* refers to any more.
RECURSIVE DestroyUnreferenced(_, _, _, _)
DestroyUnreferenced(W, ps, set_alive, i) ==
    IF i > Len(ps) THEN [W |-> W, plugins |-> ps]
    ELSE IF ~ps[i].destroyed /\ ~ps[i].user_ref /\ ~set_alive
    THEN Once(PluginDestroy(W, ps[i]),
              LAMBDA W1 : DestroyUnreferenced(
                              W1, [ps EXCEPT ![i].destroyed = TRUE],
                              set_alive, i + 1))
    ELSE DestroyUnreferenced(W, ps, set_alive, i + 1)

LoaderIdle == phase = "loaded" /\ aborted = "none"

\* bt_plugin_set_put_ref(): the caller's reference on the plugin set
bt_plugin_set_put_ref ==
    /\ LoaderIdle /\ plugin_set_refs = 1
    /\ \E D \in {DestroyUnreferenced(ToWorld, plugins, FALSE, 1)} :
          /\ FromWorld(D.W)
          /\ plugins' = D.plugins
    /\ plugin_set_refs' = 0
    /\ UNCHANGED <<phase, load, components, aborted, msg_vars>>
    /\ UNCHANGED ext_vars

\* bt_plugin_get_ref() on a plugin borrowed from the plugin set
bt_plugin_get_ref ==
    /\ LoaderIdle /\ plugin_set_refs = 1
    /\ \E i \in 1..Len(plugins) :
          /\ ~plugins[i].user_ref
          /\ plugins' = [plugins EXCEPT ![i].user_ref = TRUE]
    /\ UNCHANGED <<phase, load, handle, plugin_set_refs, comp_classes,
                   component_class_list, components, error_causes, aborted,
                   msg_vars>>
    /\ UNCHANGED ext_vars

\* bt_plugin_put_ref()
bt_plugin_put_ref ==
    /\ LoaderIdle
    /\ \E i \in 1..Len(plugins) :
          /\ plugins[i].user_ref
          /\ \E D \in {DestroyUnreferenced(ToWorld,
                            [plugins EXCEPT ![i].user_ref = FALSE],
                            plugin_set_refs = 1, 1)} :
                /\ FromWorld(D.W)
                /\ plugins' = D.plugins
    /\ UNCHANGED <<phase, load, plugin_set_refs, components, aborted,
                   msg_vars>>
    /\ UNCHANGED ext_vars

\* The component classes the caller can reach: those of a living plugin.
ReachableCompClasses ==
    {id \in 1..Len(comp_classes) :
        \E i \in 1..Len(plugins) :
            /\ ~plugins[i].destroyed
            /\ \E k \in 1..Len(plugins[i].comp_classes) :
                  plugins[i].comp_classes[k] = id}

\* A component is created from a component class: it holds a reference
\* on its class.
bt_component_create ==
    /\ LoaderIdle
    /\ \E id \in ReachableCompClasses \ components :
          /\ components' = components \cup {id}
          /\ comp_classes' = [comp_classes EXCEPT ![id].ref_count = @ + 1]
    /\ UNCHANGED <<phase, load, handle, plugins, plugin_set_refs,
                   component_class_list, error_causes, aborted, msg_vars>>
    /\ UNCHANGED ext_vars

\* The last reference on a component is put: the component is destroyed
\* and its reference on its class is put.
bt_component_put_ref ==
    /\ LoaderIdle
    /\ \E id \in components :
          /\ components' = components \ {id}
          /\ \E W \in {CompClassPut(ToWorld, id)} : FromWorld(W)
    /\ UNCHANGED <<phase, load, plugins, plugin_set_refs, aborted, msg_vars>>
    /\ UNCHANGED ext_vars

\* fini_comp_class_list(), the library's destructor
RECURSIVE fini_comp_class_list(_)
fini_comp_class_list(W) ==
    IF W.list = {} THEN W
    ELSE LET comp_class == CHOOSE id \in W.list : TRUE
         IN  Once(HandlePut([W EXCEPT !.list = @ \ {comp_class},
                                      !.ccs[comp_class].so_handle = FALSE]),
                  LAMBDA W1 : fini_comp_class_list(W1))

\* The process ends: the destructor runs.
ProcessExit ==
    /\ LoaderIdle
    /\ phase' = "exited"
    /\ \E W \in {fini_comp_class_list(ToWorld)} : FromWorld(W)
    /\ UNCHANGED <<load, plugins, plugin_set_refs, components, aborted,
                   msg_vars>>
    /\ UNCHANGED ext_vars

(***************************************************************************)
(*               STREAM BEGINNING / STREAM END MESSAGES                    *)
(***************************************************************************)

\* enum bt_message_stream_clock_snapshot_state (babeltrace2/graph/message.h)
BT_MESSAGE_STREAM_CLOCK_SNAPSHOT_STATE_KNOWN == 1
BT_MESSAGE_STREAM_CLOCK_SNAPSHOT_STATE_UNKNOWN == 0

StreamMsgTypes == {"STREAM_BEGINNING", "STREAM_END"}

\* Which allocation of a stream message creation fails, if any.
StreamAllocFaults == {"none", "message", "default_cs"}

\* A stream message slot that holds no object; g_new0() zeroes the
\* structure, the state field included.
FreeStreamMsg ==
    [state |-> "free", type |-> "NONE", holds_stream |-> FALSE,
     default_cs |-> NoCs, default_cs_state |-> 0]

\* create_stream_message(): `stale` is the raw value the clock snapshot
\* object holds when it comes out of its pool (no value is set on it).
\* `stream_refs` counts the references on the stream the call leaves.
create_stream_message(sc, type, stale, fault) ==
    LET allocated == [FreeStreamMsg EXCEPT !.type = type,
                                           !.holds_stream = TRUE]
    IN  IF fault = "message"
        THEN [ret |-> FALSE, obj |-> FreeStreamMsg, stream_refs |-> 0,
              causes |-> 1]
        ELSE IF sc.default_clock_class /\ fault = "default_cs"
        THEN \* error: the message is freed, its stream reference is not put
             [ret |-> FALSE, obj |-> FreeStreamMsg, stream_refs |-> 1,
              causes |-> 0]
        ELSE [ret |-> TRUE,
              obj |-> [allocated EXCEPT
                          !.state = "live",
                          !.default_cs = IF sc.default_clock_class
                                         THEN <<stale>> ELSE NoCs],
              stream_refs |-> 1, causes |-> 0]

\* _BT_ASSERT_PRE_MSG_SC_DEF_CLK_CLS_COND
BT_ASSERT_PRE_MSG_SC_DEF_CLK_CLS_COND(sc) == sc.default_clock_class

\* A variant without the precondition on the stream class.
set_stream_default_clock_snapshot_any_class(sc, stream_msg, raw_value) ==
    [precond |-> "",
     obj |-> [stream_msg EXCEPT
                 !.default_cs = <<raw_value>>,
                 !.default_cs_state =
                     BT_MESSAGE_STREAM_CLOCK_SNAPSHOT_STATE_KNOWN]]

\* set_stream_default_clock_snapshot(): the message after the call, or the
\* violated precondition or assertion.
set_stream_default_clock_snapshot(sc, stream_msg, raw_value) ==
    IF ~BT_ASSERT_PRE_MSG_SC_DEF_CLK_CLS_COND(sc)
    THEN [precond |-> "message-stream-class-has-default-clock-class",
          obj |-> stream_msg]
    ELSE IF stream_msg.default_cs = NoCs
    THEN [precond |-> "BT_ASSERT(stream_msg->default_cs)", obj |-> stream_msg]
    ELSE [precond |-> "",
          obj |-> [stream_msg EXCEPT
                      !.default_cs = <<raw_value>>,
                      !.default_cs_state =
                          BT_MESSAGE_STREAM_CLOCK_SNAPSHOT_STATE_KNOWN]]

\* borrow_stream_message_default_clock_snapshot_const(): the state returned
\* and *snapshot
borrow_stream_message_default_clock_snapshot_const(stream_msg) ==
    [state |-> stream_msg.default_cs_state, snapshot |-> stream_msg.default_cs]

\* A variant that gives the snapshot whatever its state.
defaultClockSnapshot_without_state_test(stream_msg) ==
    borrow_stream_message_default_clock_snapshot_const(stream_msg).snapshot

\* CommonStreamBeginningMessage::defaultClockSnapshot() const and
\* CommonStreamEndMessage::defaultClockSnapshot() const: the optional
\* snapshot, <<>> being nullopt.
CommonStreamMessage_defaultClockSnapshot(stream_msg) ==
    LET got == borrow_stream_message_default_clock_snapshot_const(stream_msg)
    IN  IF got.state = BT_MESSAGE_STREAM_CLOCK_SNAPSHOT_STATE_KNOWN
        THEN got.snapshot ELSE <<>>

\* destroy_stream_message(): the message after its destruction (the clock
\* snapshot is destroyed, the stream reference is put, the memory is freed)
destroy_stream_message(stream_msg) == FreeStreamMsg

\* The model follows one stream message object at a time.
StreamSlots == {1}
FreeStreamSlots == {i \in StreamSlots : stream_messages[i].state = "free"}
LiveStreamSlots == {i \in StreamSlots : stream_messages[i].state = "live"}

NoStreamCall ==
    [func |-> "none", type |-> "NONE", slot |-> 0, raw_value |-> 0,
     fault |-> "none", outcome |-> "none", state |-> 0, snapshot |-> <<>>,
     optional |-> <<>>]

other_than_stream_msgs ==
    <<messages, msg_call, phase, load, handle, plugins, plugin_set_refs,
      comp_classes, component_class_list, components, metadata, converter,
      graph, fs_sink, pipeline>>

\* bt_message_stream_beginning_create(), bt_message_stream_end_create()
bt_message_stream_create ==
    /\ aborted = "none"
    /\ FreeStreamSlots # {}
    /\ stream_ref_count < MaxStreamRefs
    /\ \E type \in StreamMsgTypes, fault \in StreamAllocFaults,
          stale \in 0..MaxRaw :
          \E r \in {create_stream_message(stream_class, type, stale, fault)} :
              LET slot == CHOOSE i \in FreeStreamSlots : TRUE
              IN  /\ error_causes + r.causes <= MaxCauses
                  /\ stream_messages' =
                        IF r.ret THEN [stream_messages EXCEPT ![slot] = r.obj]
                        ELSE stream_messages
                  /\ stream_ref_count' = stream_ref_count + r.stream_refs
                  /\ error_causes' = error_causes + r.causes
                  /\ stream_msg_call' =
                        [NoStreamCall EXCEPT
                            !.func = "create", !.type = type, !.fault = fault,
                            !.slot = IF r.ret THEN slot ELSE 0,
                            !.outcome = IF r.ret THEN "ok" ELSE "NULL"]
    /\ UNCHANGED <<stream_class, aborted, other_than_stream_msgs>>

\* bt_message_stream_beginning_set_default_clock_snapshot(),
\* bt_message_stream_end_set_default_clock_snapshot(), and the C++
\* defaultClockSnapshot(val) over them
bt_message_stream_set_default_clock_snapshot ==
    /\ aborted = "none"
    /\ \E slot \in LiveStreamSlots, raw_value \in 0..MaxRaw :
          \E r \in {set_stream_default_clock_snapshot(
                        stream_class, stream_messages[slot], raw_value)} :
              /\ stream_messages' = [stream_messages EXCEPT ![slot] = r.obj]
              /\ aborted' = IF r.precond # "" THEN r.precond ELSE "none"
              /\ stream_msg_call' =
                    [NoStreamCall EXCEPT
                        !.func = "set_default_clock_snapshot",
                        !.type = stream_messages[slot].type, !.slot = slot,
                        !.raw_value = raw_value,
                        !.outcome = IF r.precond # "" THEN "precondition"
                                    ELSE "ok"]
    /\ UNCHANGED <<stream_class, stream_ref_count, error_causes,
                   other_than_stream_msgs>>

\* bt_message_stream_beginning_borrow_default_clock_snapshot_const(),
\* bt_message_stream_end_borrow_default_clock_snapshot_const(), and the C++
\* defaultClockSnapshot() over them
bt_message_stream_borrow_default_clock_snapshot_const ==
    /\ aborted = "none"
    /\ \E slot \in LiveStreamSlots :
          LET got == borrow_stream_message_default_clock_snapshot_const(
                         stream_messages[slot])
          IN  stream_msg_call' =
                  [NoStreamCall EXCEPT
                      !.func = "borrow_default_clock_snapshot",
                      !.type = stream_messages[slot].type, !.slot = slot,
                      !.outcome = "ok", !.state = got.state,
                      !.snapshot = got.snapshot,
                      !.optional = CommonStreamMessage_defaultClockSnapshot(
                                       stream_messages[slot])]
    /\ UNCHANGED <<stream_class, stream_ref_count, error_causes, aborted,
                   stream_messages, other_than_stream_msgs>>

\* The last reference to a stream message is put.
bt_message_stream_put_ref ==
    /\ aborted = "none"
    /\ \E slot \in LiveStreamSlots :
          /\ stream_messages' =
                [stream_messages EXCEPT
                    ![slot] = destroy_stream_message(stream_messages[slot])]
          /\ stream_ref_count' = stream_ref_count - 1
          /\ stream_msg_call' =
                [NoStreamCall EXCEPT
                    !.func = "put_ref", !.slot = slot,
                    !.type = stream_messages[slot].type, !.outcome = "ok"]
    /\ UNCHANGED <<stream_class, error_causes, aborted,
                   other_than_stream_msgs>>

(***************************************************************************)
(*                  CTF METADATA: SEMANTIC VALIDATOR                       *)
(***************************************************************************)

\* errno values (errno.h)
EINVAL == 22
EPERM == 1

\* A node of the metadata AST (struct ctf_node): its type, its line, its
\* `visited` mark and the members of the union `u` the validator reads.  A
\* pointer to a node is a sequence: <<>> is NULL, <<n>> points to n.  The
\* parent of a node is the node that holds it, as the parent links pass
\* sets it before the validation.
Node(type, lineno) ==
    [type |-> type, lineno |-> lineno, visited |-> FALSE,
     \* u.unary_expression
     unary_type |-> "UNARY_UNKNOWN", link |-> "UNARY_LINK_UNKNOWN",
     sbrac_exp |-> <<>>,
     \* u.ctf_expression
     left |-> <<>>, right |-> <<>>,
     \* u.root, u.event, u.stream, u.env, u.trace, u.clock, u.callsite,
     \* u._struct, u.variant
     declaration_list |-> <<>>, trace |-> <<>>, stream |-> <<>>,
     event |-> <<>>, env |-> <<>>, clock |-> <<>>, callsite |-> <<>>,
     \* u.field_class_def, u.field_class_alias_target,
     \* u.field_class_alias_name, u.struct_or_variant_declaration
     field_class_specifier_list |-> <<>>, field_class_declarators |-> <<>>,
     \* u.field_class_alias
     target |-> <<>>, alias |-> <<>>,
     \* u.field_class_specifier_list, u.field_class_specifier
     head |-> <<>>, spec_type |-> "TYPESPEC_UNKNOWN", node |-> <<>>,
     \* u.field_class_declarator
     dec_type |-> "TYPEDEC_UNKNOWN", pointers |-> <<>>, has_id |-> FALSE,
     nested_declarator |-> <<>>, length |-> <<>>, abstract_array |-> FALSE,
     bitfield_len |-> <<>>,
     \* u.floating_point, u.integer, u.string
     expressions |-> <<>>,
     \* u.enumerator, u._enum
     values |-> <<>>, container_field_class |-> <<>>,
     enumerator_list |-> <<>>]

\* What a visitor gives: its return value and the line numbers of the
\* errors it logged and appended to the error, in order.
Visit(ret, linenos) == [ret |-> ret, linenos |-> linenos]
VisitOk == Visit(0, <<>>)

\* The visitor's exits `errinval` and `errperm`, after `logged` was logged.
errinval(node, logged) == Visit(-EINVAL, Append(logged, node.lineno))
errperm(node, logged) == Visit(-EPERM, Append(logged, node.lineno))

\* Whether `node`, the element `index` of the list `list` of its parent, is
\* the first entry of that list.
IsFirstEntry(index) == index = 1

\* The first switch of ctf_visitor_unary_expression(), on the parent's type
unary_expression_parent(node, parent, list, index) ==
    IF parent.type = "NODE_CTF_EXPRESSION"
    THEN IF list = "left" /\ node.unary_type # "UNARY_STRING"
         THEN errperm(node, <<node.lineno>>)
         ELSE VisitOk
    ELSE IF parent.type = "NODE_TYPE_DECLARATOR"
    THEN IF node.unary_type \in {"UNARY_UNSIGNED_CONSTANT", "UNARY_STRING"}
         THEN VisitOk
         ELSE errperm(node, <<node.lineno>>)
    ELSE IF parent.type = "NODE_STRUCT"
    THEN IF node.unary_type = "UNARY_UNSIGNED_CONSTANT"
         THEN VisitOk
         ELSE errperm(node, <<node.lineno>>)
    ELSE IF parent.type = "NODE_ENUMERATOR"
    THEN VisitOk
    ELSE IF parent.type = "NODE_UNARY_EXPRESSION"
    THEN errperm(node, <<node.lineno>>)
    ELSE errinval(node, <<>>)

\* The case UNARY_DOTLINK, UNARY_ARROWLINK of the second switch
unary_expression_dot_arrow_link(node, parent, list, index) ==
    IF parent.type # "NODE_CTF_EXPRESSION"
    THEN errperm(node, <<node.lineno>>)
    ELSE IF node.unary_type # "UNARY_STRING"
    THEN errperm(node, <<node.lineno>>)
    ELSE IF IsFirstEntry(index)
    THEN errperm(node, <<node.lineno>>)
    ELSE VisitOk

\* The case UNARY_DOTDOTDOT of the second switch
unary_expression_dotdotdot_link(node, parent, list, index) ==
    IF parent.type # "NODE_ENUMERATOR"
    THEN errperm(node, <<node.lineno>>)
    ELSE IF IsFirstEntry(index)
    THEN errperm(node, <<node.lineno>>)
    ELSE VisitOk

\* The second switch of ctf_visitor_unary_expression(), on the link
unary_expression_link(node, parent, list, index) ==
    IF node.link = "UNARY_LINK_UNKNOWN"
    THEN IF parent.type = "NODE_CTF_EXPRESSION" /\ ~IsFirstEntry(index)
         THEN errperm(node, <<node.lineno>>)
         ELSE VisitOk
    ELSE IF node.link \in {"UNARY_DOTLINK", "UNARY_ARROWLINK"}
    THEN unary_expression_dot_arrow_link(node, parent, list, index)
    ELSE IF node.link = "UNARY_DOTDOTDOT"
    THEN unary_expression_dotdotdot_link(node, parent, list, index)
    ELSE Visit(-EINVAL, <<node.lineno>>)

\* ctf_visitor_unary_expression(): `node` is the element `index` of the list
\* `list` of `parent`.
ctf_visitor_unary_expression(node, parent, list, index) ==
    LET first == unary_expression_parent(node, parent, list, index)
    IN  IF first.ret # 0 THEN first
        ELSE unary_expression_link(node, parent, list, index)

\* ctf_visitor_field_class_specifier_list()
ctf_visitor_field_class_specifier_list(node, parent) ==
    IF parent.type \in {"NODE_CTF_EXPRESSION", "NODE_TYPE_DECLARATOR",
                        "NODE_TYPEDEF", "NODE_TYPEALIAS_TARGET",
                        "NODE_TYPEALIAS_ALIAS", "NODE_ENUM",
                        "NODE_STRUCT_OR_VARIANT_DECLARATION", "NODE_ROOT"}
    THEN VisitOk
    ELSE errinval(node, <<>>)

\* ctf_visitor_field_class_specifier()
ctf_visitor_field_class_specifier(node, parent) ==
    IF parent.type = "NODE_TYPE_SPECIFIER_LIST" THEN VisitOk
    ELSE errinval(node, <<>>)

\* The node types under which a declaration list is walked, and the parents
\* the validator accepts for some node types.
ScopeNodeTypes == {"NODE_EVENT", "NODE_STREAM", "NODE_ENV", "NODE_TRACE",
                   "NODE_CLOCK", "NODE_CALLSITE"}
CtfExpressionParents == ScopeNodeTypes \cup
    {"NODE_ROOT", "NODE_FLOATING_POINT", "NODE_INTEGER", "NODE_STRING"}
TypedefParents == {"NODE_ROOT", "NODE_EVENT", "NODE_STREAM", "NODE_TRACE",
                   "NODE_VARIANT", "NODE_STRUCT"}
BasicTypeSpecs == {"TYPESPEC_FLOATING_POINT", "TYPESPEC_INTEGER",
                   "TYPESPEC_STRING", "TYPESPEC_STRUCT", "TYPESPEC_VARIANT",
                   "TYPESPEC_ENUM"}

\* ret = first; if (ret) return ret; then the rest
IfOkThen(first, rest(_)) ==
    Once(first, LAMBDA r : IF r.ret # 0 THEN r ELSE rest(r))

\* The test of an alias name's declarator against the specifiers of the
\* alias name (the loop of ctf_visitor_field_class_declarator())
AliasNameSpecifiersAllow(node, parent) ==
    \A k \in 1..Len(parent.field_class_specifier_list) :
        \A j \in 1..Len(parent.field_class_specifier_list[k].head) :
            parent.field_class_specifier_list[k].head[j].spec_type
                    \in BasicTypeSpecs
                => node.pointers # <<>>

\* The first switch of ctf_visitor_field_class_declarator(), on the
\* parent's type
field_class_declarator_parent(node, parent) ==
    IF parent.type = "NODE_TYPE_DECLARATOR"
    THEN IF node.pointers # <<>> THEN errperm(node, <<>>) ELSE VisitOk
    ELSE IF parent.type = "NODE_TYPEALIAS_TARGET"
    THEN VisitOk
    ELSE IF parent.type = "NODE_TYPEALIAS_ALIAS"
    THEN IF node.dec_type = "TYPEDEC_NESTED" THEN errperm(node, <<>>)
         ELSE IF ~AliasNameSpecifiersAllow(node, parent)
         THEN errperm(node, <<>>)
         ELSE IF node.dec_type = "TYPEDEC_ID" /\ node.has_id
         THEN errperm(node, <<>>)
         ELSE VisitOk
    ELSE IF parent.type \in {"NODE_TYPEDEF",
                             "NODE_STRUCT_OR_VARIANT_DECLARATION"}
    THEN VisitOk
    ELSE errinval(node, <<>>)

RECURSIVE _ctf_visitor_semantic_check(_, _, _, _)
RECURSIVE CheckList(_, _, _, _)
RECURSIVE CheckLength(_, _, _)
RECURSIVE ctf_visitor_field_class_declarator(_, _)

\* bt_list_for_each_entry over the list `list` of `parent`, from the entry
\* `i` on: the check of each entry, until one fails
CheckList(nodes, parent, list, i) ==
    IF i > Len(nodes) THEN VisitOk
    ELSE IfOkThen(_ctf_visitor_semantic_check(nodes[i], parent, list, i),
                  LAMBDA r : CheckList(nodes, parent, list, i + 1))

\* The loop over the length of a nested declarator
CheckLength(node, nodes, i) ==
    IF i > Len(nodes) THEN VisitOk
    ELSE IF nodes[i].type # "NODE_UNARY_EXPRESSION"
    THEN Visit(-EINVAL, <<node.lineno>>)
    ELSE IfOkThen(_ctf_visitor_semantic_check(nodes[i], node, "length", i),
                  LAMBDA r : CheckLength(node, nodes, i + 1))

\* ctf_visitor_field_class_declarator()
ctf_visitor_field_class_declarator(node, parent) ==
    IfOkThen(field_class_declarator_parent(node, parent), LAMBDA r0 :
    IfOkThen(CheckList(node.pointers, node, "pointers", 1), LAMBDA r1 :
        IF node.dec_type = "TYPEDEC_ID" THEN VisitOk
        ELSE IF node.dec_type = "TYPEDEC_NESTED"
        THEN IfOkThen(CheckList(node.nested_declarator, node,
                                "nested", 1), LAMBDA r2 :
             IfOkThen(IF ~node.abstract_array
                      THEN CheckLength(node, node.length, 1)
                      ELSE IF parent.type = "NODE_TYPEALIAS_TARGET"
                      THEN Visit(-EINVAL, <<node.lineno>>)
                      ELSE VisitOk, LAMBDA r3 :
                 CheckList(node.bitfield_len, node, "bitfield_len", 1)))
        ELSE Visit(-EINVAL, <<node.lineno>>)))

\* The first loop of the case NODE_ENUMERATOR: a numeric unary expression,
\* or two of them with the `...` link on the second
RECURSIVE EnumeratorValues(_, _)
EnumeratorValues(node, i) ==
    IF i > Len(node.values) THEN VisitOk
    ELSE LET iter == node.values[i]
             numeric == /\ iter.type = "NODE_UNARY_EXPRESSION"
                        /\ iter.unary_type \in {"UNARY_SIGNED_CONSTANT",
                                                "UNARY_UNSIGNED_CONSTANT"}
         IN  IF i = 1 /\ ~(numeric /\ iter.link = "UNARY_LINK_UNKNOWN")
             THEN errperm(node, <<iter.lineno>>)
             ELSE IF i = 2 /\ ~(numeric /\ iter.link = "UNARY_DOTDOTDOT")
             THEN errperm(node, <<iter.lineno>>)
             ELSE IF i > 2 THEN errperm(node, <<>>)
             ELSE EnumeratorValues(node, i + 1)

\* The field class specifier list, then the declarators, of a node
SpecifierListThenDeclarators(node) ==
    IfOkThen(CheckList(node.field_class_specifier_list, node,
                       "field_class_specifier_list", 1), LAMBDA r :
        CheckList(node.field_class_declarators, node,
                  "field_class_declarators", 1))

\* nr_declarators > 1
TooManyDeclarators(node) == Len(node.field_class_declarators) > 1

\* The cases NODE_TYPEALIAS_TARGET and NODE_TYPEALIAS_ALIAS
field_class_alias_part(node, parent) ==
    IF parent.type # "NODE_TYPEALIAS" THEN errinval(node, <<>>)
    ELSE IfOkThen(SpecifierListThenDeclarators(node), LAMBDA r :
             IF TooManyDeclarators(node)
             THEN Visit(-EINVAL, <<node.lineno>>)
             ELSE VisitOk)

\* _ctf_visitor_semantic_check(): `node` is the entry `index` of the list
\* `list` of `parent`.
_ctf_visitor_semantic_check(node, parent, list, index) ==
    IF node.visited THEN VisitOk
    ELSE IF node.type = "NODE_ROOT"
    THEN IfOkThen(CheckList(node.declaration_list, node,
                            "declaration_list", 1), LAMBDA r1 :
         IfOkThen(CheckList(node.trace, node, "trace", 1), LAMBDA r2 :
         IfOkThen(CheckList(node.stream, node, "stream", 1), LAMBDA r3 :
             CheckList(node.event, node, "event", 1))))
    ELSE IF node.type \in ScopeNodeTypes
    THEN IF parent.type # "NODE_ROOT" THEN errinval(node, <<>>)
         ELSE CheckList(node.declaration_list, node, "declaration_list", 1)
    ELSE IF node.type = "NODE_CTF_EXPRESSION"
    THEN IF parent.type \notin CtfExpressionParents
         THEN errinval(node, <<>>)
         ELSE IfOkThen(CheckList(node.left, node, "left", 1), LAMBDA r :
                  CheckList(node.right, node, "right", 1))
    ELSE IF node.type = "NODE_UNARY_EXPRESSION"
    THEN ctf_visitor_unary_expression(node, parent, list, index)
    ELSE IF node.type = "NODE_TYPEDEF"
    THEN IF parent.type \notin TypedefParents THEN errinval(node, <<>>)
         ELSE SpecifierListThenDeclarators(node)
    ELSE IF node.type \in {"NODE_TYPEALIAS_TARGET", "NODE_TYPEALIAS_ALIAS"}
    THEN field_class_alias_part(node, parent)
    ELSE IF node.type = "NODE_TYPEALIAS"
    THEN IF parent.type \notin TypedefParents THEN errinval(node, <<>>)
         ELSE IfOkThen(CheckList(node.target, node, "target", 1),
                  LAMBDA r : CheckList(node.alias, node, "alias", 1))
    ELSE IF node.type = "NODE_TYPE_SPECIFIER_LIST"
    THEN ctf_visitor_field_class_specifier_list(node, parent)
    ELSE IF node.type = "NODE_TYPE_SPECIFIER"
    THEN ctf_visitor_field_class_specifier(node, parent)
    ELSE IF node.type = "NODE_POINTER"
    THEN IF parent.type # "NODE_TYPE_DECLARATOR" THEN errinval(node, <<>>)
         ELSE VisitOk
    ELSE IF node.type = "NODE_TYPE_DECLARATOR"
    THEN ctf_visitor_field_class_declarator(node, parent)
    ELSE IF node.type \in {"NODE_FLOATING_POINT", "NODE_STRING"}
    THEN IF parent.type = "NODE_TYPE_SPECIFIER"
         THEN CheckList(node.expressions, node, "expressions", 1)
         ELSE IF parent.type = "NODE_UNARY_EXPRESSION"
         THEN errperm(node, <<>>)
         ELSE errinval(node, <<>>)
    ELSE IF node.type = "NODE_INTEGER"
    THEN IF parent.type # "NODE_TYPE_SPECIFIER" THEN errinval(node, <<>>)
         ELSE CheckList(node.expressions, node, "expressions", 1)
    ELSE IF node.type = "NODE_ENUMERATOR"
    THEN IF parent.type # "NODE_ENUM" THEN errinval(node, <<>>)
         ELSE IfOkThen(EnumeratorValues(node, 1), LAMBDA r :
                  CheckList(node.values, node, "values", 1))
    ELSE IF node.type = "NODE_ENUM"
    THEN IF parent.type = "NODE_TYPE_SPECIFIER"
         THEN IfOkThen(CheckList(node.container_field_class, node,
                                 "container_field_class", 1), LAMBDA r :
                  CheckList(node.enumerator_list, node,
                            "enumerator_list", 1))
         ELSE IF parent.type = "NODE_UNARY_EXPRESSION"
         THEN errperm(node, <<>>)
         ELSE errinval(node, <<>>)
    ELSE IF node.type = "NODE_STRUCT_OR_VARIANT_DECLARATION"
    THEN IF parent.type \notin {"NODE_STRUCT", "NODE_VARIANT"}
         THEN errinval(node, <<>>)
         ELSE SpecifierListThenDeclarators(node)
    ELSE IF node.type \in {"NODE_VARIANT", "NODE_STRUCT"}
    THEN IF parent.type = "NODE_TYPE_SPECIFIER"
         THEN CheckList(node.declaration_list, node, "declaration_list", 1)
         ELSE IF parent.type = "NODE_UNARY_EXPRESSION"
         THEN errperm(node, <<>>)
         ELSE errinval(node, <<>>)
    ELSE Visit(-EINVAL, <<node.lineno>>)

\* The node that stands for the parent of the root (its parent is NULL, and
\* the case NODE_ROOT does not read it).
NoParent == Node("NODE_UNKNOWN", 0)

\* ctf_visitor_semantic_check(): `links` is what ctf_visitor_parent_links()
\* returns.
ctf_visitor_semantic_check(node, links) ==
    IF links # 0 THEN Visit(links, <<node.lineno>>)
    ELSE Once(_ctf_visitor_semantic_check(node, NoParent, "none", 1),
              LAMBDA r : IF r.ret # 0
                         THEN Visit(r.ret, Append(r.linenos, node.lineno))
                         ELSE r)

\* ---- the metadata ASTs given to the validator
Unary(unary_type, link, lineno) ==
    [Node("NODE_UNARY_EXPRESSION", lineno) EXCEPT
        !.unary_type = unary_type, !.link = link,
        !.sbrac_exp =
            IF unary_type = "UNARY_SBRAC"
            THEN <<[Node("NODE_UNARY_EXPRESSION", lineno) EXCEPT
                       !.unary_type = "UNARY_UNSIGNED_CONSTANT"]>>
            ELSE <<>>]
IdUnary(lineno) == Unary("UNARY_STRING", "UNARY_LINK_UNKNOWN", lineno)

UnaryTypes == {"UNARY_STRING", "UNARY_UNSIGNED_CONSTANT", "UNARY_SBRAC"}
UnaryLinks == {"UNARY_LINK_UNKNOWN", "UNARY_DOTLINK", "UNARY_ARROWLINK",
               "UNARY_DOTDOTDOT"}

\* The lists of 1..MaxListLen unary expressions; the entry i is on the
\* line 10 + i.
RECURSIVE UnaryListsOfLen(_)
UnaryListsOfLen(n) ==
    IF n = 0 THEN {<<>>}
    ELSE {Append(l, Unary(t, k, 10 + n)) :
             l \in UnaryListsOfLen(n - 1), t \in UnaryTypes, k \in UnaryLinks}
UnaryLists == UNION {UnaryListsOfLen(n) : n \in 1..MaxListLen}

CtfExpression(left, right) ==
    [Node("NODE_CTF_EXPRESSION", 5) EXCEPT !.left = left, !.right = right]
CtfExpressions ==
    {CtfExpression(<<IdUnary(5)>>, r) : r \in UnaryLists}
        \cup {CtfExpression(l, <<IdUnary(5)>>) : l \in UnaryLists}

Scope(type, declaration_list) ==
    [Node(type, 2) EXCEPT !.declaration_list = declaration_list]
Root(declaration_list, trace) ==
    [Node("NODE_ROOT", 1) EXCEPT !.declaration_list = declaration_list,
                                 !.trace = trace]
\* A root whose list `list` holds the one block `block`.
RootWithBlock(list, block) ==
    [Root(<<>>, <<>>) EXCEPT ![list] = <<block>>]
Specifier(spec_type, node) ==
    [Node("NODE_TYPE_SPECIFIER", 3) EXCEPT !.spec_type = spec_type,
                                           !.node = node]
SpecifierList(head) ==
    [Node("NODE_TYPE_SPECIFIER_LIST", 3) EXCEPT !.head = head]
Integer(expressions) ==
    [Node("NODE_INTEGER", 4) EXCEPT !.expressions = expressions]
Enumerator(values) ==
    [Node("NODE_ENUMERATOR", 5) EXCEPT !.values = values]
Enum(enumerator_list) ==
    [Node("NODE_ENUM", 4) EXCEPT
        !.container_field_class =
            <<SpecifierList(<<Specifier("TYPESPEC_ID_TYPE", <<>>)>>)>>,
        !.enumerator_list = enumerator_list]
Struct(declaration_list) ==
    [Node("NODE_STRUCT", 4) EXCEPT !.declaration_list = declaration_list]
Pointer == Node("NODE_POINTER", 8)
Declarator(dec_type, pointers, has_id, lineno) ==
    [Node("NODE_TYPE_DECLARATOR", lineno) EXCEPT
        !.dec_type = dec_type, !.pointers = pointers, !.has_id = has_id]
ArrayDeclarator(length) ==
    [Declarator("TYPEDEC_NESTED", <<>>, FALSE, 7) EXCEPT
        !.nested_declarator = <<Declarator("TYPEDEC_ID", <<>>, TRUE, 7)>>,
        !.length = length]
Typedef(specifiers, declarators) ==
    [Node("NODE_TYPEDEF", 2) EXCEPT
        !.field_class_specifier_list = <<SpecifierList(specifiers)>>,
        !.field_class_declarators = declarators]
AliasPart(type, specifiers, declarators, lineno) ==
    [Node(type, lineno) EXCEPT
        !.field_class_specifier_list = <<SpecifierList(specifiers)>>,
        !.field_class_declarators = declarators]
Typealias(target_specifiers, alias_specifiers, alias_declarators) ==
    [Node("NODE_TYPEALIAS", 2) EXCEPT
        !.target = <<AliasPart("NODE_TYPEALIAS_TARGET", target_specifiers,
                               <<>>, 2)>>,
        !.alias = <<AliasPart("NODE_TYPEALIAS_ALIAS", alias_specifiers,
                              alias_declarators, 6)>>]

IdTypeSpecifiers == <<Specifier("TYPESPEC_ID_TYPE", <<>>)>>

\* The declarators of an alias name: abstract, with a pointer, or named.
AliasDeclarators(lineno) ==
    {Declarator("TYPEDEC_ID", <<>>, FALSE, lineno),
     Declarator("TYPEDEC_ID", <<Pointer>>, FALSE, lineno),
     Declarator("TYPEDEC_ID", <<>>, TRUE, lineno)}
AliasDeclaratorLists ==
    {<<>>} \cup {<<d>> : d \in AliasDeclarators(6)}
           \cup {<<d, e>> : d \in AliasDeclarators(6),
                            e \in AliasDeclarators(7)}
AliasSpecifiers ==
    {IdTypeSpecifiers, <<Specifier("TYPESPEC_INTEGER", <<Integer(<<>>)>>)>>}
Typealiases ==
    {Typealias(IdTypeSpecifiers, sp, ds) :
        sp \in AliasSpecifiers, ds \in AliasDeclaratorLists}

\* The lists of the root that hold the top-level blocks, with the type of
\* the blocks of each.
TopLevelBlockLists ==
    {<<"trace", "NODE_TRACE">>, <<"stream", "NODE_STREAM">>,
     <<"event", "NODE_EVENT">>, <<"env", "NODE_ENV">>,
     <<"clock", "NODE_CLOCK">>, <<"callsite", "NODE_CALLSITE">>}
\* The CTF expressions with one unary expression on each side.
ShortCtfExpressions ==
    {CtfExpression(<<IdUnary(5)>>, r) : r \in UnaryListsOfLen(1)}
        \cup {CtfExpression(l, <<IdUnary(5)>>) : l \in UnaryListsOfLen(1)}

\* The ASTs: a CTF expression in a trace block or in an integer field
\* class; an enumerator; an array length; a field class alias at the root
\* or in a structure; a CTF expression in a top-level block of each kind.
ASTs ==
    {RootWithBlock(b[1], Scope(b[2], <<e>>)) :
        b \in TopLevelBlockLists, e \in ShortCtfExpressions} \cup
    {Root(<<>>, <<Scope("NODE_TRACE", <<e>>)>>) : e \in CtfExpressions}
    \cup {Root(<<Typealias(<<Specifier("TYPESPEC_INTEGER",
                                       <<Integer(<<e>>)>>)>>,
                           IdTypeSpecifiers, <<>>)>>, <<>>) :
             e \in CtfExpressions}
    \cup {Root(<<Typealias(<<Specifier("TYPESPEC_ENUM",
                                       <<Enum(<<Enumerator(v)>>)>>)>>,
                           IdTypeSpecifiers, <<>>)>>, <<>>) :
             v \in UnaryLists}
    \cup {Root(<<Typedef(IdTypeSpecifiers, <<ArrayDeclarator(l)>>)>>, <<>>) :
             l \in UnaryLists}
    \cup {Root(<<a>>, <<>>) : a \in Typealiases}
    \cup {Root(<<SpecifierList(<<Specifier("TYPESPEC_STRUCT",
                                           <<Struct(<<a>>)>>)>>)>>, <<>>) :
             a \in Typealiases}

(***************************************************************************)
(*          CTF METADATA OF A FILESYSTEM SOURCE TRACE (fs-src)             *)
(***************************************************************************)

\* What can fail in ctf_fs_metadata_set_trace_class() besides the semantic
\* validation: opening the metadata file, creating the decoder, scanning
\* and parsing the text, creating the parent links, generating the IR.
MetadataFaults == {"none", "file", "decoder", "parse", "parent_links", "ir"}

\* The metadata of a trace before ctf_fs_metadata_set_trace_class(): no
\* decoder, no trace class.
NewMetadata(ast) ==
    [ast |-> ast, state |-> "new", fault |-> "none", ret |-> 0,
     decoder |-> FALSE, trace_class |-> FALSE, tc |-> FALSE,
     semantic_checked |-> FALSE, semantic |-> VisitOk,
     ir_visited |-> FALSE, appended_linenos |-> <<>>]

\* ctf_metadata_decoder_append_content(): the text is scanned and parsed
\* into the AST, the AST is validated, then the IR visitor makes the trace
\* class from it.  Each stage runs only if the stages before it succeeded.
ctf_metadata_decoder_append_content(m, fault) ==
    IF fault = "parse" THEN [m EXCEPT !.ret = -1]
    ELSE Once(ctf_visitor_semantic_check(
                  m.ast, IF fault = "parent_links" THEN -EINVAL ELSE 0),
              LAMBDA v :
                  IF v.ret # 0
                  THEN [m EXCEPT !.ret = -1, !.semantic_checked = TRUE,
                                 !.semantic = v,
                                 !.appended_linenos = v.linenos]
                  ELSE IF fault = "ir"
                  THEN [m EXCEPT !.ret = -1, !.semantic_checked = TRUE,
                                 !.semantic = v, !.ir_visited = TRUE]
                  ELSE [m EXCEPT !.ret = 0, !.semantic_checked = TRUE,
                                 !.semantic = v, !.ir_visited = TRUE])

\* A variant that takes the trace class whatever the decoder returned.
set_trace_class_ignoring_status(m, fault) ==
    Once(ctf_metadata_decoder_append_content(
             [m EXCEPT !.decoder = TRUE, !.fault = fault], fault),
         LAMBDA d : [d EXCEPT !.state = "set", !.trace_class = TRUE,
                              !.tc = TRUE])

\* ctf_fs_metadata_set_trace_class()
ctf_fs_metadata_set_trace_class(m, fault) ==
    IF fault = "file"
    THEN [m EXCEPT !.state = "set", !.fault = fault, !.ret = -1]
    ELSE IF fault = "decoder"
    THEN [m EXCEPT !.state = "set", !.fault = fault, !.ret = -1]
    ELSE Once(ctf_metadata_decoder_append_content(
                  [m EXCEPT !.decoder = TRUE, !.fault = fault], fault),
              LAMBDA d :
                  IF d.ret # 0 THEN [d EXCEPT !.state = "set"]
                  ELSE [d EXCEPT !.state = "set", !.trace_class = TRUE,
                                 !.tc = TRUE])

\* ctf_fs_metadata_fini()
ctf_fs_metadata_fini(m) ==
    [m EXCEPT !.state = "finalized", !.trace_class = FALSE,
              !.decoder = FALSE, !.tc = FALSE]

other_than_metadata ==
    <<msg_vars, phase, load, handle, plugins, plugin_set_refs, comp_classes,
      component_class_list, components, stream_msg_vars, converter, graph,
      fs_sink, pipeline, aborted>>

\* The component sets the trace class of a trace from its metadata file.
Call_ctf_fs_metadata_set_trace_class ==
    /\ aborted = "none"
    /\ metadata.state = "new"
    /\ \E fault \in MetadataFaults :
          \E m \in {ctf_fs_metadata_set_trace_class(metadata, fault)} :
              /\ metadata' = m
              /\ error_causes' = error_causes + Len(m.appended_linenos)
    /\ UNCHANGED other_than_metadata

\* The trace is destroyed.
Call_ctf_fs_metadata_fini ==
    /\ aborted = "none"
    /\ metadata.state = "set"
    /\ metadata' = ctf_fs_metadata_fini(metadata)
    /\ UNCHANGED <<error_causes, other_than_metadata>>

(***************************************************************************)
(* TEXT TO CTF CONVERTER (text-to-ctf.c)                                   *)
(***************************************************************************)
CHAR_BIT == 8

\* Size of a packet of the output stream, in bits (init_pos()).  The
\* packet header and the packet context take 224 bits of it.
packet_size == 32 * CHAR_BIT

\* A stream position: the bit offset in the current packet, the number of
\* the current packet, the size of a packet, and whether an assertion of a
\* writer failed.  `contexts` is the part of the output the packet contexts
\* take: the two fields of the context of each packet, in order;
\* `content_size_loc` points to the content size field of one of them
\* (0: to none).
StreamPos(offset, packet) ==
    [offset |-> offset, packet |-> packet, packet_size |-> packet_size,
     assert_failed |-> FALSE, contexts |-> <<>>, content_size_loc |-> 0]

\* init_pos(): the first packet is mapped, nothing is written.
init_pos == StreamPos(0, 1)

\* dummy_pos(): a copy of the position that writes nothing.
dummy_pos(pos) == pos

\* align_pos(): the offset rounded up to a multiple of the alignment.
align_pos(pos, bit_offset) ==
    [pos EXCEPT !.offset = ((pos.offset + bit_offset - 1) \div bit_offset)
                               * bit_offset]

\* move_pos(): the offset advances.
move_pos(pos, bit_offset) == [pos EXCEPT !.offset = pos.offset + bit_offset]

\* pos_packet(): whether a dummy position went past the end of the packet.
pos_packet(dummy) == dummy.offset > dummy.packet_size

\* pos_pad_packet(): the rest of the packet is padding; the position is
\* the start of the next packet.
pos_pad_packet(pos) == [pos EXCEPT !.offset = 0, !.packet = pos.packet + 1]

\* One field of the packet header or of the packet context: the
\* assertion that it fits, the alignment and the move.
write_field(pos, align, bits) ==
    [move_pos(align_pos(pos, align), bits)
        EXCEPT !.assert_failed =
                   \/ pos.assert_failed
                   \/ pos_packet(move_pos(align_pos(dummy_pos(pos), align),
                                          bits))]

\* write_packet_header(): the magic number and the trace UUID.
write_packet_header(pos) ==
    write_field(write_field(pos, 4 * CHAR_BIT, 4 * CHAR_BIT),
                CHAR_BIT, 16 * CHAR_BIT)

\* The value -1U write_packet_context() stores as the content size ("not
\* known yet"): no content size has this value.
NotKnownYet == -1

\* write_packet_context(): the content size and the packet size.
write_packet_context(pos) ==
    write_field(
        [write_field(pos, 4 * CHAR_BIT, 4 * CHAR_BIT) EXCEPT
            !.contexts = Append(pos.contexts,
                                [content_size |-> NotKnownYet,
                                 packet_size |-> pos.packet_size]),
            !.content_size_loc = Len(pos.contexts) + 1],
        4 * CHAR_BIT, 4 * CHAR_BIT)

\* The result of trace_string(): the position, whether the line was
\* written and where, whether the error was printed, and the number of
\* times the fit was tested.
StringResult(pos, written, at, reported, tests) ==
    [pos |-> pos, written |-> written, at |-> at, reported |-> reported,
     tests |-> tests]

RECURSIVE trace_string(_, _, _)
\* trace_string() that gives up at the first overflow.
trace_string_without_retry(pos, len, attempt) ==
    IF pos_packet(move_pos(align_pos(dummy_pos(pos), CHAR_BIT),
                           len * CHAR_BIT))
    THEN StringResult(write_packet_context(write_packet_header(
                          pos_pad_packet(pos))),
                      FALSE, <<>>, TRUE, attempt + 1)
    ELSE StringResult(move_pos(align_pos(pos, CHAR_BIT), len * CHAR_BIT),
                      TRUE,
                      <<pos.packet, align_pos(pos, CHAR_BIT).offset>>,
                      FALSE, attempt + 1)

\* trace_string(), from its retry label, with the value of attempt.
trace_string(pos, len, attempt) ==
    IF pos_packet(move_pos(align_pos(dummy_pos(pos), CHAR_BIT),
                           len * CHAR_BIT))
    THEN \* the packet is padded and a new one begins
         IF attempt = 1
         THEN StringResult(write_packet_context(write_packet_header(
                               pos_pad_packet(pos))),
                           FALSE, <<>>, TRUE, attempt + 1)
         ELSE trace_string(write_packet_context(write_packet_header(
                               pos_pad_packet(pos))),
                           len, attempt + 1)
    ELSE StringResult(move_pos(align_pos(pos, CHAR_BIT), len * CHAR_BIT),
                      TRUE,
                      <<pos.packet, align_pos(pos, CHAR_BIT).offset>>,
                      FALSE, attempt + 1)

\* The length trace_text() gives for a line of n characters: n + 1 when
\* the line ends with a newline; when it does not (the last line of the
\* input), the length is computed from a null pointer and may be anything.
LineLens(n, newline) ==
    IF newline THEN {n + 1} ELSE 0 .. (MaxLineLen + 1)

\* The converter before main() runs.
NoConverter ==
    [state |-> "start", pos |-> init_pos, lines |-> 0, out |-> <<>>,
     discarded |-> <<>>, last |-> <<>>, ret |-> 0]

other_than_converter ==
    <<msg_vars, plugin_vars, stream_msg_vars, metadata, graph, fs_sink,
      pipeline>>

\* main() up to the first getline(): the output file is made again, the
\* UUID is parsed, the first packet begins.
Converter_main ==
    /\ aborted = "none"
    /\ converter.state = "start"
    /\ \E fault \in {"none", "unlink", "open"} :
          IF fault # "none"
          THEN /\ converter' = [converter EXCEPT !.state = "exited",
                                                 !.ret = -1]
               /\ UNCHANGED aborted
          ELSE \E pos \in {write_packet_context(
                               write_packet_header(init_pos))} :
                  /\ converter' = [converter EXCEPT !.state = "reading",
                                                    !.pos = pos]
                  /\ aborted' = IF pos.assert_failed THEN "assert"
                                ELSE aborted
    /\ UNCHANGED other_than_converter

\* One turn of the loop of trace_text(): getline() gives a line of n
\* characters, trace_string() records it.
Converter_trace_text_line ==
    /\ aborted = "none"
    /\ converter.state = "reading"
    /\ converter.lines < MaxLines
    /\ \E n \in 0 .. MaxLineLen, newline \in BOOLEAN :
       \E len \in LineLens(n, newline) :
       \E r \in {trace_string(converter.pos, len, 0)} :
          /\ converter' =
                [converter EXCEPT
                    !.state = IF newline THEN "reading" ELSE "last_read",
                    !.pos = r.pos,
                    !.lines = converter.lines + 1,
                    !.out = IF r.written
                            THEN Append(converter.out,
                                        [line |-> converter.lines + 1,
                                         packet |-> r.at[1],
                                         offset |-> r.at[2],
                                         len |-> len])
                            ELSE converter.out,
                    !.discarded = IF r.reported
                                  THEN Append(converter.discarded,
                                              converter.lines + 1)
                                  ELSE converter.discarded,
                    !.last = <<[len |-> len, tests |-> r.tests,
                                n |-> n, newline |-> newline]>>]
          /\ aborted' = IF r.pos.assert_failed THEN "assert" ELSE aborted
    /\ UNCHANGED other_than_converter

\* getline() finds the end of the input: fini_pos(), close(), return 0.
Converter_end_of_input ==
    /\ aborted = "none"
    /\ converter.state \in {"reading", "last_read"}
    /\ converter' = [converter EXCEPT !.state = "exited", !.ret = 0]
    /\ UNCHANGED <<aborted, other_than_converter>>

(***************************************************************************)
(* GRAPH: CONFIGURATION AND SINK CONSUMPTION                               *)
(***************************************************************************)
ComponentTypes == {"source", "filter", "sink"}

\* The methods of a sink component class the graph calls; the
\* "graph is configured" method is optional.
SinkMethodSets == {[graph_is_configured |-> m, consume |-> TRUE] :
                      m \in BOOLEAN}

\* A component of a graph.
Component(type, methods) == [type |-> type, methods |-> methods,
                             ended |-> FALSE]

ComponentKinds ==
    {Component(t, <<>>) : t \in {"source", "filter"}}
        \cup {Component("sink", m) : m \in SinkMethodSets}

Statuses == {"OK", "AGAIN", "END", "ERROR"}

\* A graph after its creation.
NoGraph ==
    [state |-> "Building", components |-> <<>>, connections |-> 0,
     calls |-> <<>>, consumes |-> 0]

SinksOf(g) ==
    {i \in 1 .. Len(g.components) : g.components[i].type = "sink"}

\* The call of a method of a sink, as the graph records it.
MethodCall(i, method) == [sink |-> i, method |-> method]

\* The sinks of the graph from the i-th component on get their
\* "graph is configured" call, until one fails.
RECURSIVE configure_sinks(_, _, _)
configure_sinks(g, i, status) ==
    IF i > Len(g.components) THEN [g EXCEPT !.state = "Configured"]
    ELSE IF \/ g.components[i].type # "sink"
            \/ ~g.components[i].methods.graph_is_configured
    THEN configure_sinks(g, i + 1, status)
    ELSE IF status[i] # "OK"
    THEN [g EXCEPT !.state = "Ended",
                   !.calls = Append(@, MethodCall(i, "graph_is_configured"))]
    ELSE configure_sinks(
             [g EXCEPT !.calls =
                           Append(@, MethodCall(i, "graph_is_configured"))],
             i + 1, status)

\* Configuring a graph whatever its state.
bt_graph_configure_every_time(g, status) == configure_sinks(g, 1, status)

\* The graph is configured when it was not yet: every sink gets its
\* "graph is configured" call.
bt_graph_configure(g, status) ==
    IF g.state # "Building" THEN g ELSE configure_sinks(g, 1, status)

\* The sink i consumes once and returns status.
consume_sink(g, i, status) ==
    [g EXCEPT !.calls = Append(@, MethodCall(i, "consume")),
              !.consumes = @ + 1,
              !.components[i].ended = (status = "END"),
              !.state =
                  IF status = "ERROR" THEN "Ended"
                  ELSE IF /\ status = "END"
                          /\ \A j \in SinksOf(g) \ {i} : g.components[j].ended
                  THEN "Ended"
                  ELSE "Running"]

\* One run of the graph on its sink i: the graph is configured if need
\* be, then the sink consumes.
bt_graph_run_once(g, i, gic_status, status) ==
    Once(bt_graph_configure(g, gic_status),
         LAMBDA c : IF c.state = "Ended" THEN c
                    ELSE consume_sink(c, i, status))

other_than_graph ==
    <<msg_vars, plugin_vars, stream_msg_vars, metadata, converter, fs_sink,
      pipeline, aborted>>

\* A component is added to a graph that is being built.
Graph_add_component ==
    /\ aborted = "none"
    /\ graph.state = "Building"
    /\ Len(graph.components) < MaxComponents
    /\ \E c \in ComponentKinds :
          graph' = [graph EXCEPT !.components = Append(@, c)]
    /\ UNCHANGED other_than_graph

\* Two ports of components of a graph that is being built are connected.
Graph_connect_ports ==
    /\ aborted = "none"
    /\ graph.state = "Building"
    /\ Len(graph.components) >= 2
    /\ graph.connections < MaxConnections
    /\ graph' = [graph EXCEPT !.connections = @ + 1]
    /\ UNCHANGED other_than_graph

\* The graph runs once: a sink that has not ended consumes.
Graph_run_once ==
    /\ aborted = "none"
    /\ graph.state # "Ended"
    /\ graph.consumes < MaxConsumes
    /\ \E i \in SinksOf(graph) :
          /\ ~graph.components[i].ended
          /\ \E gic_status \in [SinksOf(graph) -> {"OK", "ERROR"}],
                status \in Statuses :
                graph' = bt_graph_run_once(graph, i, gic_status, status)
    /\ UNCHANGED other_than_graph

(***************************************************************************)
(* SINK.CTF.FS: NAMES OF THE FILES OF THE TRACE DIRECTORY                  *)
(***************************************************************************)
\* The name of the metadata file, which no stream file may take.
MetadataFileName == "metadata"

\* The names a source gives its streams ("" is a stream without a name).
StreamNames == {"", "the-stream", "metadata", "the-stream-0"}

\* The file name a stream asks for: its name, or a generated one.
BaseFileName(name) == IF name = "" THEN "stream" ELSE name

\* A base name with the numeric suffix.
WithSuffix(base, suffix) == base \o "-" \o ToString(suffix)

\* Whether a stream file may not be called name.
stream_file_name_exists(used, name) ==
    name = MetadataFileName \/ name \in used

\* The first name base-suffix, base-(suffix + 1), ... that is free.
RECURSIVE first_free_suffix(_, _, _)
first_free_suffix(used, base, suffix) ==
    IF stream_file_name_exists(used, WithSuffix(base, suffix))
    THEN first_free_suffix(used, base, suffix + 1)
    ELSE WithSuffix(base, suffix)

\* The base name taken as it is.
make_stream_file_name_unchecked(used, base) == base

\* The name of the file of a new stream, given the names in use.
make_unique_stream_file_name(used, base) ==
    IF stream_file_name_exists(used, base)
    THEN first_free_suffix(used, base, 0)
    ELSE base

\* The sink after its initialization: no trace directory yet.
NoFsSink == [state |-> "initialized", streams |-> <<>>, files |-> {}]

\* The file names of the streams of the sink.
StreamFileNames(sink) ==
    {sink.streams[i].file_name : i \in 1 .. Len(sink.streams)}

other_than_fs_sink ==
    <<msg_vars, plugin_vars, stream_msg_vars, metadata, converter, graph,
      pipeline, aborted>>

\* The sink consumes the beginning of a stream: the trace directory is
\* made at the first one, and the stream gets its file.
FsSink_stream_beginning ==
    /\ aborted = "none"
    /\ fs_sink.state \in {"initialized", "writing"}
    /\ Len(fs_sink.streams) < MaxStreams
    /\ \E name \in StreamNames :
       \E file_name \in {make_unique_stream_file_name(
                             StreamFileNames(fs_sink),
                             BaseFileName(name))} :
          fs_sink' = [fs_sink EXCEPT
                         !.state = "writing",
                         !.streams = Append(@, [name |-> name,
                                                file_name |-> file_name]),
                         !.files = @ \cup {file_name}]
    /\ UNCHANGED other_than_fs_sink

\* The sink is finalized: the metadata file of the trace is written.
FsSink_finalize ==
    /\ aborted = "none"
    /\ fs_sink.state = "writing"
    /\ fs_sink' = [fs_sink EXCEPT !.state = "finalized",
                                  !.files = @ \cup {MetadataFileName}]
    /\ UNCHANGED other_than_fs_sink

(***************************************************************************)
(* FLT.LTTNG-UTILS.DEBUG-INFO BEFORE SINK.TEXT.DETAILS                     *)
(***************************************************************************)
\* The parameters the comparison gives sink.text.details.
DetailsParams ==
    [with_trace_name |-> FALSE, with_stream_name |-> FALSE,
     with_uuid |-> FALSE]

\* The value of a field that an event does not have.
NoField == "none"

\* An event message: its name, its clock snapshot, the fields `ip` and
\* `vpid` of its common context, its payload, and the structure the
\* debug-info filter adds.
EventMessage(ip, vpid, payload) ==
    [type |-> "event", name |-> "ev", ip |-> ip, vpid |-> vpid,
     payload |-> payload, debug_info |-> NoField]

\* A message that is not an event.
OtherMessage(type) ==
    [type |-> type, name |-> NoField, ip |-> NoField, vpid |-> NoField,
     payload |-> NoField, debug_info |-> NoField]

\* The messages a source may give.
SourceMessages ==
    {EventMessage(ip, vpid, "7") : ip \in {NoField, "0x1000"},
                                   vpid \in {NoField, "1"}}
        \cup {OtherMessage(t) : t \in {"stream_beginning", "stream_end",
                                       "discarded_events"}}

RECURSIVE MessageSeqs(_)
MessageSeqs(n) ==
    IF n = 0 THEN {<<>>}
    ELSE {<<>>} \cup {<<m>> \o s : m \in SourceMessages, s \in MessageSeqs(n - 1)}

\* A trace: its name, its UUID, the name of its stream and its messages.
Trace(msgs) ==
    [name |-> "the-trace", uuid |-> "83656eb1", stream_name |-> "the-stream",
     msgs |-> msgs]

\* Whether an event carries the fields the debug-info filter looks for.
has_debug_info_fields(msg) ==
    msg.type = "event" /\ msg.ip # NoField /\ msg.vpid # NoField

\* The debug information of an address of a process: the binary, the
\* function and the source line, when the binary is known.
resolve_debug_info(vpid, ip) ==
    IF ip = "0x1000" THEN "bin=libhello.so func=foo+0 src=tp.c:41"
    ELSE "bin= func= src="

\* The filter that adds the structure to every event.
debug_info_on_every_event(msg) ==
    IF msg.type = "event"
    THEN [type |-> msg.type, name |-> msg.name, ip |-> msg.ip,
          vpid |-> msg.vpid, payload |-> msg.payload,
          debug_info |-> resolve_debug_info(msg.vpid, msg.ip)]
    ELSE OtherMessage(msg.type)

\* The message the debug-info filter gives for a message of its upstream:
\* a copy, and for an event with the fields, a copy with the structure.
debug_info_copy_message(msg) ==
    IF msg.type = "event"
    THEN [type |-> msg.type, name |-> msg.name, ip |-> msg.ip,
          vpid |-> msg.vpid, payload |-> msg.payload,
          debug_info |-> IF has_debug_info_fields(msg)
                         THEN resolve_debug_info(msg.vpid, msg.ip)
                         ELSE NoField]
    ELSE OtherMessage(msg.type)

\* The trace the debug-info filter makes of the trace of its upstream.
debug_info_copy_trace(trace) ==
    [name |-> trace.name, uuid |-> trace.uuid,
     stream_name |-> trace.stream_name, msgs |-> <<>>]

\* A field of the text of a message, when it is there.
DetailsField(label, value) ==
    IF value = NoField THEN <<>> ELSE <<<<label, value>>>>

\* The text sink.text.details writes for a message of a trace.
details_write_message(params, trace, msg) ==
    <<msg.type>>
        \o (IF params.with_trace_name
            THEN DetailsField("trace", trace.name) ELSE <<>>)
        \o (IF params.with_uuid
            THEN DetailsField("uuid", trace.uuid) ELSE <<>>)
        \o (IF params.with_stream_name
            THEN DetailsField("stream", trace.stream_name) ELSE <<>>)
        \o DetailsField("name", msg.name)
        \o DetailsField("ip", msg.ip)
        \o DetailsField("vpid", msg.vpid)
        \o DetailsField("payload", msg.payload)
        \o DetailsField("debug_info", msg.debug_info)

\* A run of the command line tool before its sink consumed.
NewRun == [pos |-> 1, stdout |-> <<>>, stderr |-> <<>>]

\* The two runs of the comparison on a trace: without and with the filter.
NewPipeline(trace) == [trace |-> trace, expected |-> NewRun, actual |-> NewRun]
NoPipeline == NewPipeline(Trace(<<>>))

\* The sink of a run consumes the next message of its upstream.
details_consume(run, trace, msg) ==
    [run EXCEPT !.pos = @ + 1,
                !.stdout = Append(@, details_write_message(DetailsParams,
                                                           trace, msg))]

other_than_pipeline ==
    <<msg_vars, plugin_vars, stream_msg_vars, metadata, converter, graph,
      fs_sink, aborted>>

\* The graph without the filter runs once.
Pipeline_consume_without_filter ==
    /\ aborted = "none"
    /\ pipeline.expected.pos <= Len(pipeline.trace.msgs)
    /\ pipeline' =
          [pipeline EXCEPT !.expected =
              details_consume(@, pipeline.trace,
                              pipeline.trace.msgs[pipeline.expected.pos])]
    /\ UNCHANGED other_than_pipeline

\* The graph with the filter runs once.
Pipeline_consume_with_filter ==
    /\ aborted = "none"
    /\ pipeline.actual.pos <= Len(pipeline.trace.msgs)
    /\ pipeline' =
          [pipeline EXCEPT !.actual =
              details_consume(@, debug_info_copy_trace(pipeline.trace),
                  debug_info_copy_message(
                      pipeline.trace.msgs[pipeline.actual.pos]))]
    /\ UNCHANGED other_than_pipeline

\* The metadata of a trace before any AST is given.
NoMetadata == NewMetadata(Root(<<>>, <<>>))

(***************************************************************************)
(*                           SPECIFICATIONS                                *)
(***************************************************************************)
InitLoader ==
    /\ phase = "start"
    /\ load = NoLoad
    /\ handle = NoHandle
    /\ plugins = <<>>
    /\ plugin_set_refs = 0
    /\ comp_classes = <<>>
    /\ component_class_list = {}
    /\ components = {}
    /\ error_causes = 0
    /\ aborted = "none"

InitMessages ==
    /\ stream_ref_count = 1
    /\ messages = [i \in Slots |-> FreeMsg]
    /\ msg_call = NoCall

InitStreamMessages ==
    /\ stream_messages = [i \in StreamSlots |-> FreeStreamMsg]
    /\ stream_msg_call = NoStreamCall

\* The parts of the state other than the loader and the messages of a
\* stream, before anything ran.
InitOthers ==
    /\ metadata = NoMetadata
    /\ converter = NoConverter
    /\ graph = NoGraph
    /\ fs_sink = NoFsSink
    /\ pipeline = NoPipeline

\* The stream class of the loader's behaviours, where no message is made.
PlainStreamClass ==
    [supports_discarded_events |-> FALSE,
     discarded_events_have_default_clock_snapshots |-> FALSE,
     supports_discarded_packets |-> FALSE,
     discarded_packets_have_default_clock_snapshots |-> FALSE,
     default_clock_class |-> FALSE]

\* Loading a plugin file or the static sections, then the life of the
\* objects the load made.
Init ==
    /\ InitLoader /\ InitMessages /\ stream_class = PlainStreamClass
    /\ InitStreamMessages /\ InitOthers
Next ==
    \/ Call_bt_plugin_so_create_all_from_file
    \/ Call_bt_plugin_so_create_all_from_static
    \/ bt_plugin_set_put_ref
    \/ bt_plugin_get_ref
    \/ bt_plugin_put_ref
    \/ bt_component_create
    \/ bt_component_put_ref
    \/ ProcessExit
Spec == Init /\ [][Next]_vars

\* Loading on any short path.
NextPath ==
    \/ Call_bt_plugin_so_create_all_from_file_on_path
    \/ bt_plugin_set_put_ref
    \/ ProcessExit
SpecPath == Init /\ [][NextPath]_vars

\* The discarded items messages of a stream, for every stream class.
InitMsg ==
    /\ InitLoader /\ InitMessages /\ stream_class \in StreamClasses
    /\ InitStreamMessages /\ InitOthers
NextMsg ==
    \/ bt_message_discarded_items_create
    \/ bt_message_discarded_items_create_with_default_clock_snapshots
    \/ bt_message_discarded_items_set_count
    \/ bt_message_discarded_items_get_count
    \/ bt_message_put_ref
SpecMsg == InitMsg /\ [][NextMsg]_vars

\* The stream beginning and stream end messages of a stream, for every
\* stream class.
NextStreamMsg ==
    \/ bt_message_stream_create
    \/ bt_message_stream_set_default_clock_snapshot
    \/ bt_message_stream_borrow_default_clock_snapshot_const
    \/ bt_message_stream_put_ref
SpecStreamMsg == InitMsg /\ [][NextStreamMsg]_vars

\* The metadata of a trace of a filesystem source, for every AST.
InitMetadata ==
    /\ InitLoader /\ InitMessages /\ stream_class = PlainStreamClass
    /\ InitStreamMessages
    /\ metadata \in {NewMetadata(ast) : ast \in ASTs}
    /\ converter = NoConverter
    /\ graph = NoGraph
    /\ fs_sink = NoFsSink
    /\ pipeline = NoPipeline
NextMetadata ==
    \/ Call_ctf_fs_metadata_set_trace_class
    \/ Call_ctf_fs_metadata_fini
SpecMetadata == InitMetadata /\ [][NextMetadata]_vars

\* The text to CTF converter, for every input.
NextConverter ==
    \/ Converter_main
    \/ Converter_trace_text_line
    \/ Converter_end_of_input
SpecConverter == Init /\ [][NextConverter]_vars

\* A graph is built, configured and run.
NextGraph ==
    \/ Graph_add_component
    \/ Graph_connect_ports
    \/ Graph_run_once
SpecGraph == Init /\ [][NextGraph]_vars

\* A sink.ctf.fs component writes the streams it gets, then its metadata.
NextFsSink ==
    \/ FsSink_stream_beginning
    \/ FsSink_finalize
SpecFsSink == Init /\ [][NextFsSink]_vars

\* The comparison of the outputs without and with the debug-info filter,
\* for every trace.
InitPipeline ==
    /\ InitLoader /\ InitMessages /\ stream_class = PlainStreamClass
    /\ InitStreamMessages
    /\ metadata = NoMetadata
    /\ converter = NoConverter
    /\ graph = NoGraph
    /\ fs_sink = NoFsSink
    /\ pipeline \in {NewPipeline(Trace(msgs)) : msgs \in MessageSeqs(MaxTraceLen)}
NextPipeline ==
    \/ Pipeline_consume_without_filter
    \/ Pipeline_consume_with_filter
SpecPipeline == InitPipeline /\ [][NextPipeline]_vars


(***************************************************************************)
(*                             PROPERTIES                                  *)
(***************************************************************************)
LiveCompClasses ==
    {id \in 1..Len(comp_classes) : ~comp_classes[id].destroyed}
AllPluginsDestroyed ==
    /\ plugin_set_refs = 0
    /\ \A i \in 1..Len(plugins) : plugins[i].destroyed

\* C1: after a plugin file is loaded, as long as a component made from one
\* of its component classes, or any of its component classes, exists, the
\* shared library is open, whatever happened to the plugins and the plugin
\* set: the library is closed only once they are all released.
C1_LibraryOpenWhileInUse ==
    (load.func = "from_file" /\ phase = "loaded") =>
        ((components # {} \/ LiveCompClasses # {}) => handle.module = "open")

\* A component lives, every plugin and the plugin set are gone, and the
\* library is open.
C1_Witness ==
    /\ load.func = "from_file" /\ phase = "loaded"
    /\ Len(plugins) > 0 /\ AllPluginsDestroyed
    /\ components # {}
    /\ handle.module = "open"


\* The load returned (it did not abort).
LoadReturned == phase = "loaded" /\ aborted = "none"

\* The load met nothing but what its descriptors hold: no allocation
\* failed and every symbol was found.
NothingElseFailed == load.fault = "none"

LenientAnomalies == {"unknown-plugin-attr", "unknown-cc-attr",
                     "unknown-cc-type", "init-failed"}
StrictAnomalies == {"unknown-plugin-attr", "unknown-cc-attr", "init-failed"}

\* The descriptors of the initialization functions that failed.
FailedInits ==
    {load.init_calls[k].descriptor : k \in
        {j \in 1..Len(load.init_calls) : load.init_calls[j].status < 0}}

\* C2: in lenient mode, a load that meets an unknown plugin descriptor
\* attribute, an unknown component class descriptor attribute, an unknown
\* component class type or a failing initialization function (and nothing
\* else that fails) does not abort and returns no error status, and the
\* plugin set it returns holds no plugin whose initialization failed.
C2_LenientSkipsWithWarning ==
    (/\ phase = "loaded" /\ ~load.fail_on_load_error /\ NothingElseFailed
     /\ load.log \cap LenientAnomalies # {}) =>
        /\ aborted = "none"
        /\ load.status >= 0
        /\ \A i \in 1..Len(plugins) : plugins[i].descriptor \notin FailedInits

\* C3: in strict mode, a load that meets an unknown plugin descriptor
\* attribute, an unknown component class descriptor attribute or a failing
\* initialization function returns a negative status and no plugin set.
C3_StrictFailsHard ==
    (/\ LoadReturned /\ load.fail_on_load_error
     /\ load.log \cap StrictAnomalies # {}) =>
        /\ load.status < 0
        /\ ~load.set_out
        /\ plugin_set_refs = 0

\* A strict load that loaded one plugin, then met a failing initialization
\* function, and returned an error.
C3_Witness ==
    /\ LoadReturned /\ load.fail_on_load_error
    /\ "init-failed" \in load.log
    /\ Len(load.init_calls) = 2
    /\ load.status < 0 /\ ~load.set_out

\* The claim's words for a candidate path.
EndsWith(path, suffix) ==
    /\ Len(path) >= Len(suffix)
    /\ SubSeq(path, Len(path) - Len(suffix) + 1, Len(path)) = suffix
LongestSuffixLen ==
    bt_max_t(strlen(NATIVE_PLUGIN_SUFFIX), strlen(LIBTOOL_PLUGIN_SUFFIX))
LongerThanSuffixAndEndsInOne(path) ==
    /\ Len(path) > LongestSuffixLen
    /\ EndsWith(path, NATIVE_PLUGIN_SUFFIX)
           \/ EndsWith(path, LIBTOOL_PLUGIN_SUFFIX)

\* C4: a load from a file takes the path for a plugin file (it goes on to
\* open the file) exactly when the path is longer than the longest suffix
\* and ends in the native suffix or in `.la`; on any other path it returns
\* Not Found without trying to open the file.
C4_CandidateExactlyOnSuffix ==
    (LoadReturned /\ load.func = "from_file") =>
        /\ load.open_tried <=> LongerThanSuffixAndEndsInOne(load.path)
        /\ ~LongerThanSuffixAndEndsInOne(load.path) =>
              (load.status = BT_FUNC_STATUS_NOT_FOUND /\ ~load.open_tried)

\* C5: a load, from a file or from the static sections, that returns a
\* non-negative status has appended no cause to the thread's error.
C5_NoErrorLeftOnNonNegativeStatus ==
    (LoadReturned /\ load.status >= 0) => error_causes = 0

\* A lenient load that logged a warning and returned Not Found, with no
\* cause appended.
C5_Witness ==
    /\ LoadReturned /\ load.log # {}
    /\ load.status = BT_FUNC_STATUS_NOT_FOUND
    /\ error_causes = 0


\* The flags of the stream's class for a kind of message.
ClassSupports(type) ==
    \/ type = "DISCARDED_EVENTS" /\ stream_class.supports_discarded_events
    \/ type = "DISCARDED_PACKETS" /\ stream_class.supports_discarded_packets
ClassDemandsSnapshots(type) ==
    \/ /\ type = "DISCARDED_EVENTS"
       /\ stream_class.discarded_events_have_default_clock_snapshots
    \/ /\ type = "DISCARDED_PACKETS"
       /\ stream_class.discarded_packets_have_default_clock_snapshots

CreateFuncs == {"create", "create_with_default_clock_snapshots"}

\* C6: a creation with default clock snapshots whose beginning raw value
\* is greater than its end raw value fails (the precondition
\* "beginning-default-clock-snapshot-lteq-end"; no message is made); with
\* beginning <= end, for a stream class that supports the messages with
\* default clock snapshots, it gives a message with the two snapshots
\* (when the allocations succeed).
C6_BeginLeEnd ==
    msg_call.func = "create_with_default_clock_snapshots" =>
        /\ msg_call.begin > msg_call.end =>
              /\ msg_call.outcome = "precondition"
              /\ aborted = "beginning-default-clock-snapshot-lteq-end"
              /\ msg_call.slot = 0
        /\ (/\ msg_call.begin <= msg_call.end
            /\ ClassSupports(msg_call.type)
            /\ ClassDemandsSnapshots(msg_call.type)
            /\ msg_call.fault = "none") =>
              /\ msg_call.outcome = "ok"
              /\ aborted = "none"
              /\ msg_call.slot \in Slots
              /\ messages[msg_call.slot].state = "live"
              /\ messages[msg_call.slot].default_begin_cs = <<msg_call.begin>>
              /\ messages[msg_call.slot].default_end_cs = <<msg_call.end>>

\* A creation with beginning > end, for a stream class that supports the
\* messages with default clock snapshots, was refused.
C6_Witness ==
    /\ msg_call.func = "create_with_default_clock_snapshots"
    /\ msg_call.begin > msg_call.end
    /\ ClassDemandsSnapshots(msg_call.type)
    /\ msg_call.outcome = "precondition"

\* C7: the count of a message, when available, is greater than zero; a
\* set-count call with 0 fails the precondition "count-gt-0" and leaves
\* the message as it was.
C7_CountGreaterThanZero ==
    [][/\ \A s \in Slots :
              messages'[s].count.avail = "AVAILABLE" =>
                  messages'[s].count.value > 0
       /\ (msg_call'.func = "set_count" /\ msg_call'.count_arg = 0) =>
              /\ aborted' = "count-gt-0"
              /\ msg_call'.outcome = "precondition"
              /\ messages' = messages]_vars

\* Setting 0 on a message whose count is set was refused.
C7_Witness ==
    /\ aborted = "count-gt-0"
    /\ msg_call.func = "set_count" /\ msg_call.count_arg = 0
    /\ messages[msg_call.slot].count.avail = "AVAILABLE"
    /\ messages[msg_call.slot].count.value > 0

\* C8: a message is created with its count not available; the count
\* becomes available only by a set-count call that succeeds on that
\* message; and reading the count gives its availability, the C++ count()
\* giving no value (not 0) while it is not available.
C8_CountUnavailableUntilSet ==
    [][/\ \A s \in Slots :
              (/\ messages'[s].count.avail = "AVAILABLE"
               /\ messages[s].count.avail # "AVAILABLE") =>
                  /\ msg_call'.func = "set_count"
                  /\ msg_call'.slot = s
                  /\ msg_call'.outcome = "ok"
       /\ (msg_call'.func \in CreateFuncs /\ msg_call'.outcome = "ok") =>
              messages'[msg_call'.slot].count.avail = "NOT_AVAILABLE"
       /\ msg_call'.func = "get_count" =>
              /\ msg_call'.avail = messages[msg_call'.slot].count.avail
              /\ msg_call'.avail = "NOT_AVAILABLE" =>
                    msg_call'.optional = <<>>
              /\ msg_call'.avail = "AVAILABLE" =>
                    msg_call'.optional =
                        <<messages[msg_call'.slot].count.value>>]_vars

\* The count of a message on which no count is set was read, and was
\* given as not available.
C8_Witness ==
    /\ msg_call.func = "get_count"
    /\ messages[msg_call.slot].state = "live"
    /\ messages[msg_call.slot].count.avail = "NOT_AVAILABLE"
    /\ msg_call.avail = "NOT_AVAILABLE"
    /\ msg_call.optional = <<>>

\* C9: a message object exists only of a kind the stream's class supports;
\* a creation of a message of a kind the class does not support is refused
\* by a precondition and makes no message.
C9_CreationNeedsSupport ==
    /\ \A s \in Slots :
          messages[s].state # "free" =>
              ClassSupports(messages[s].type)
    /\ (/\ msg_call.func \in CreateFuncs
        /\ ~ClassSupports(msg_call.type)) =>
          /\ msg_call.outcome = "precondition"
          /\ aborted # "none"
          /\ msg_call.slot = 0

\* A creation of discarded packets messages for a stream class that only
\* supports discarded events was refused by the support precondition.
C9_Witness ==
    /\ msg_call.func \in CreateFuncs
    /\ msg_call.type = "DISCARDED_PACKETS"
    /\ stream_class.supports_discarded_events
    /\ ~stream_class.supports_discarded_packets
    /\ aborted = "stream-class-supports-discarded-packets"

\* C10: a message has its beginning and end default clock snapshots
\* exactly when the stream class demands them for its kind of message; a
\* creation without snapshots when they are demanded, or with snapshots
\* when they are not, is refused by a precondition.
C10_SnapshotsIffDemanded ==
    /\ \A s \in Slots :
          messages[s].state = "live" =>
              /\ (messages[s].default_begin_cs # NoCs) <=>
                     ClassDemandsSnapshots(messages[s].type)
              /\ (messages[s].default_end_cs # NoCs) <=>
                     ClassDemandsSnapshots(messages[s].type)
    /\ (/\ msg_call.func \in CreateFuncs
        /\ msg_call.with_cs # ClassDemandsSnapshots(msg_call.type)) =>
          /\ msg_call.outcome = "precondition"
          /\ msg_call.slot = 0
          /\ (ClassSupports(msg_call.type)
              /\ msg_call.begin <= msg_call.end) =>
                    aborted = (IF msg_call.with_cs
                               THEN "without-default-clock-snapshots"
                               ELSE "with-default-clock-snapshots")

\* A creation without snapshots, for a stream class that demands them, was
\* refused.
C10_Witness ==
    /\ msg_call.func = "create"
    /\ ClassDemandsSnapshots(msg_call.type)
    /\ aborted = "with-default-clock-snapshots"


\* C11: for a stream beginning or stream end message whose stream class has
\* a default clock class, the state of the default clock snapshot is
\* Unknown when the message is created, becomes Known only by a call that
\* sets the snapshot on that message, is Known after such a call, and does
\* not go back to Unknown as long as the message lives; the C++ accessor
\* gives a snapshot (the one set) only when the state is Known, and nothing
\* when it is Unknown.
C11_StateUnknownUntilSetThenKnown ==
    [][stream_class.default_clock_class =>
        /\ (stream_msg_call'.func = "create"
            /\ stream_msg_call'.outcome = "ok") =>
              /\ stream_messages'[stream_msg_call'.slot].default_cs_state = 0
              /\ stream_messages'[stream_msg_call'.slot].default_cs # NoCs
        /\ \A s \in StreamSlots :
              /\ (/\ stream_messages'[s].default_cs_state = 1
                  /\ stream_messages[s].default_cs_state # 1) =>
                    /\ stream_msg_call'.func = "set_default_clock_snapshot"
                    /\ stream_msg_call'.slot = s
                    /\ stream_msg_call'.outcome = "ok"
              /\ (/\ stream_messages[s].state = "live"
                  /\ stream_messages'[s].state = "live"
                  /\ stream_messages[s].default_cs_state = 1) =>
                    stream_messages'[s].default_cs_state = 1
        /\ stream_msg_call'.func = "set_default_clock_snapshot" =>
              /\ stream_msg_call'.outcome = "ok"
              /\ stream_messages'[stream_msg_call'.slot].default_cs_state = 1
              /\ stream_messages'[stream_msg_call'.slot].default_cs =
                     <<stream_msg_call'.raw_value>>
        /\ stream_msg_call'.func = "borrow_default_clock_snapshot" =>
              /\ stream_msg_call'.state =
                     stream_messages[stream_msg_call'.slot].default_cs_state
              /\ stream_msg_call'.state = 0 =>
                     stream_msg_call'.optional = <<>>
              /\ stream_msg_call'.state = 1 =>
                     stream_msg_call'.optional =
                         stream_messages[stream_msg_call'.slot].default_cs
       ]_vars

\* The default clock snapshot of a message on which none was set was read:
\* the state is Unknown and the C++ accessor gives nothing, though the
\* message holds a snapshot object.
C11_Witness ==
    /\ stream_class.default_clock_class
    /\ stream_msg_call.func = "borrow_default_clock_snapshot"
    /\ stream_messages[stream_msg_call.slot].state = "live"
    /\ stream_messages[stream_msg_call.slot].default_cs # NoCs
    /\ stream_msg_call.state = 0
    /\ stream_msg_call.optional = <<>>

\* C12: setting a default clock snapshot on a stream beginning or stream
\* end message whose stream class has no default clock class fails the
\* precondition "message-stream-class-has-default-clock-class" and leaves
\* the message as it was.
C12_SetRefusedWithoutDefaultClockClass ==
    [][(/\ ~stream_class.default_clock_class
        /\ stream_msg_call'.func = "set_default_clock_snapshot") =>
          /\ stream_msg_call'.outcome = "precondition"
          /\ aborted' = "message-stream-class-has-default-clock-class"
          /\ stream_messages' = stream_messages]_vars

\* A set call on a message of a stream class without default clock class
\* was refused, the message holding no snapshot and its state Unknown.
C12_Witness ==
    /\ ~stream_class.default_clock_class
    /\ stream_msg_call.func = "set_default_clock_snapshot"
    /\ aborted = "message-stream-class-has-default-clock-class"
    /\ stream_messages[stream_msg_call.slot].state = "live"
    /\ stream_messages[stream_msg_call.slot].default_cs = NoCs
    /\ stream_messages[stream_msg_call.slot].default_cs_state = 0


\* The nodes of an AST: each with the type of its parent, the list of the
\* parent that holds it and its place in that list.
ChildListsOf(node) ==
    {<<"sbrac_exp", node.sbrac_exp>>, <<"left", node.left>>,
     <<"right", node.right>>, <<"declaration_list", node.declaration_list>>,
     <<"trace", node.trace>>, <<"stream", node.stream>>,
     <<"event", node.event>>, <<"env", node.env>>,
     <<"clock", node.clock>>, <<"callsite", node.callsite>>,
     <<"field_class_specifier_list", node.field_class_specifier_list>>,
     <<"field_class_declarators", node.field_class_declarators>>,
     <<"target", node.target>>, <<"alias", node.alias>>,
     <<"head", node.head>>, <<"node", node.node>>,
     <<"pointers", node.pointers>>,
     <<"nested_declarator", node.nested_declarator>>,
     <<"length", node.length>>, <<"bitfield_len", node.bitfield_len>>,
     <<"expressions", node.expressions>>, <<"values", node.values>>,
     <<"container_field_class", node.container_field_class>>,
     <<"enumerator_list", node.enumerator_list>>}
RECURSIVE Occurrences(_, _, _, _)
Occurrences(node, parent, list, index) ==
    {[node |-> node, parent |-> parent, list |-> list, index |-> index]}
    \cup UNION {UNION {Occurrences(c[2][i], node.type, c[1], i) :
                          i \in 1..Len(c[2])} : c \in ChildListsOf(node)}
NodesOf(ast) == Occurrences(ast, "none", "none", 1)

\* The validator ran on the AST of the metadata, and rejected it with an
\* error that reports a line number.
SemanticCheckRan == metadata.state # "new" /\ metadata.semantic_checked
SemanticCheckRejected ==
    /\ metadata.semantic.ret # 0
    /\ metadata.semantic.linenos # <<>>

IsNestedUnary(o) ==
    /\ o.node.type = "NODE_UNARY_EXPRESSION"
    /\ o.parent = "NODE_UNARY_EXPRESSION"
IsLinkedFirstOfCtfExpression(o) ==
    /\ o.node.type = "NODE_UNARY_EXPRESSION"
    /\ o.node.link \in {"UNARY_DOTLINK", "UNARY_ARROWLINK"}
    /\ o.parent = "NODE_CTF_EXPRESSION"
    /\ o.list \in {"left", "right"} /\ o.index = 1
IsDotDotDotOutsideEnumerator(o) ==
    /\ o.node.type = "NODE_UNARY_EXPRESSION"
    /\ o.node.link = "UNARY_DOTDOTDOT"
    /\ ~(o.parent = "NODE_ENUMERATOR" /\ o.list = "values")
IsAliasNameWithManyDeclarators(o) ==
    /\ o.node.type = "NODE_TYPEALIAS_ALIAS"
    /\ Len(o.node.field_class_declarators) > 1

\* C13: the validator rejects, with an error that reports a line number,
\* every AST that holds a unary expression whose parent is a unary
\* expression.
C13_NestedUnaryRejected ==
    (SemanticCheckRan /\ \E o \in NodesOf(metadata.ast) : IsNestedUnary(o))
        => SemanticCheckRejected

\* C14: the validator rejects, with an error that reports a line number,
\* every AST in which a unary expression with a `.` or `->` link is the
\* first entry of a list of a CTF expression.
C14_LinkedFirstRejected ==
    (SemanticCheckRan
     /\ \E o \in NodesOf(metadata.ast) : IsLinkedFirstOfCtfExpression(o))
        => SemanticCheckRejected

\* C15: the validator rejects, with an error that reports a line number,
\* every AST in which a unary expression with the `...` link is anywhere
\* but in the values of an enumerator.
C15_DotDotDotOutsideEnumeratorRejected ==
    (SemanticCheckRan
     /\ \E o \in NodesOf(metadata.ast) : IsDotDotDotOutsideEnumerator(o))
        => SemanticCheckRejected

\* C16: the validator rejects, with an error that reports a line number,
\* every AST in which the alias name of a field class alias has more than
\* one declarator.
C16_ManyAliasDeclaratorsRejected ==
    (SemanticCheckRan
     /\ \E o \in NodesOf(metadata.ast) : IsAliasNameWithManyDeclarators(o))
        => SemanticCheckRejected


\* The stages before the IR visitor: one of them failed.
FailedBeforeIr ==
    \/ metadata.fault \in {"file", "decoder", "parse", "parent_links"}
    \/ metadata.semantic_checked /\ metadata.semantic.ret # 0

\* C17: when the semantic validation, or a stage before it, fails, the IR
\* visitor does not run on the metadata, ctf_fs_metadata_set_trace_class()
\* returns a value other than 0, and the trace has no trace class.
C17_NoTraceClassFromRejectedMetadata ==
    (metadata.state = "set" /\ FailedBeforeIr) =>
        /\ ~metadata.ir_visited
        /\ metadata.ret # 0
        /\ ~metadata.trace_class
        /\ ~metadata.tc

\* The metadata of a trace whose AST the validator rejected: no trace
\* class.
C17_Witness ==
    /\ metadata.state = "set"
    /\ metadata.semantic_checked /\ metadata.semantic.ret = -EPERM
    /\ metadata.fault = "none"
    /\ metadata.ret # 0
    /\ ~metadata.trace_class

\* Whether a line of len bytes fits in a packet after offset bits.
LineFits(offset, len) == offset + len * CHAR_BIT <= packet_size

\* The offset of the first line of a packet: after its header and context.
FirstLineOffset == write_packet_context(write_packet_header(init_pos)).offset

\* trace_string() just ran on a line.
StringTraced == converter'.lines = converter.lines + 1

\* C18: when a line does not fit in the current packet, the packet is
\* closed and a new one opened, and the write is tried once more (two tests
\* of the fit in all); a line that fits in the new packet is written at its
\* start; a line that still does not fit is reported as discarded and is
\* not written.  A line that fits is written in the current packet.
C18_RetryOnceThenDiscard ==
    [][StringTraced =>
        IF LineFits(converter.pos.offset, converter'.last[1].len)
        THEN /\ converter'.out =
                    Append(converter.out,
                           [line |-> converter'.lines,
                            packet |-> converter.pos.packet,
                            offset |-> converter.pos.offset,
                            len |-> converter'.last[1].len])
             /\ converter'.pos.packet = converter.pos.packet
             /\ converter'.discarded = converter.discarded
        ELSE /\ converter'.pos.packet > converter.pos.packet
             /\ converter'.last[1].tests = 2
             /\ IF LineFits(FirstLineOffset, converter'.last[1].len)
                THEN /\ converter'.out =
                            Append(converter.out,
                                   [line |-> converter'.lines,
                                    packet |-> converter.pos.packet + 1,
                                    offset |-> FirstLineOffset,
                                    len |-> converter'.last[1].len])
                     /\ converter'.pos.packet = converter.pos.packet + 1
                     /\ converter'.discarded = converter.discarded
                ELSE /\ converter'.out = converter.out
                     /\ converter'.discarded =
                            Append(converter.discarded, converter'.lines)
    ]_vars

\* A line was written at the start of a new packet after an overflow, and
\* a later line was discarded after the second test.
C18_Witness ==
    /\ \E i \in 1 .. Len(converter.out) :
          /\ converter.out[i].packet > 1
          /\ converter.out[i].offset = FirstLineOffset
          /\ \E j \in 1 .. Len(converter.discarded) :
                converter.discarded[j] > converter.out[i].line
    /\ converter.last # <<>>
    /\ converter.last[1].tests = 2
    /\ ~LineFits(FirstLineOffset, converter.last[1].len)

\* The calls the graph made on the sink i, in order.
CallsOn(i) == SelectSeq(graph.calls, LAMBDA c : c.sink = i)

\* C19: the "graph is configured" method of a sink that has one is called
\* at most once, and when the sink has consumed, it was called exactly once
\* and that call is the first call the graph made on the sink, whatever the
\* number of components and connections of the graph.
C19_ConfiguredOnceBeforeFirstConsume ==
    \A i \in SinksOf(graph) :
        graph.components[i].methods.graph_is_configured =>
            /\ Len(SelectSeq(CallsOn(i),
                    LAMBDA c : c.method = "graph_is_configured")) <= 1
            /\ (\E k \in 1 .. Len(CallsOn(i)) :
                        CallsOn(i)[k].method = "consume")
                    => /\ CallsOn(i)[1].method = "graph_is_configured"
                       /\ Len(SelectSeq(CallsOn(i),
                              LAMBDA c : c.method = "graph_is_configured"))
                              = 1

\* A graph of several components and connections, with two sinks that have
\* the method, where one sink consumed twice and the other once.
C19_Witness ==
    /\ Len(graph.components) = MaxComponents
    /\ graph.connections > 0
    /\ \E i, j \in SinksOf(graph) :
          /\ i # j
          /\ graph.components[i].methods.graph_is_configured
          /\ graph.components[j].methods.graph_is_configured
          /\ Len(CallsOn(i)) = 3
          /\ Len(CallsOn(j)) = 2

\* The names of the streams of the sink, as a bag.
StreamNameCount(name) ==
    Cardinality({i \in 1 .. Len(fs_sink.streams) :
                    fs_sink.streams[i].name = name})

\* The file names the streams before the i-th one took.
UsedBefore(i) == {fs_sink.streams[j].file_name : j \in 1 .. (i - 1)}

\* C20: the files of the trace directory have distinct names: no two
\* streams share a file, no stream file is called `metadata`; a stream
\* whose name is free keeps it, and one whose name is `metadata` or was
\* taken gets the first suffix -0, -1, ... that makes it free; two streams
\* `the-stream` and one stream `metadata` give exactly the files
\* `metadata`, `metadata-0`, `the-stream` and `the-stream-0`.
C20_DistinctFileNames ==
    /\ \A i, j \in 1 .. Len(fs_sink.streams) :
          i # j => fs_sink.streams[i].file_name # fs_sink.streams[j].file_name
    /\ \A i \in 1 .. Len(fs_sink.streams) :
          LET base == BaseFileName(fs_sink.streams[i].name)
              taken(n) == n = "metadata" \/ n \in UsedBefore(i)
          IN  /\ fs_sink.streams[i].file_name # "metadata"
              /\ IF ~taken(base)
                 THEN fs_sink.streams[i].file_name = base
                 ELSE \E k \in 0 .. Len(fs_sink.streams) :
                         /\ fs_sink.streams[i].file_name
                                = base \o "-" \o ToString(k)
                         /\ \A m \in 0 .. (k - 1) :
                                taken(base \o "-" \o ToString(m))
    /\ Cardinality(fs_sink.files)
          = Len(fs_sink.streams)
               + (IF fs_sink.state = "finalized" THEN 1 ELSE 0)
    /\ (/\ fs_sink.state = "finalized"
        /\ Len(fs_sink.streams) = 3
        /\ StreamNameCount("the-stream") = 2
        /\ StreamNameCount("metadata") = 1)
           => fs_sink.files
                 = {"metadata", "metadata-0", "the-stream", "the-stream-0"}

\* The sink wrote two streams called `the-stream` and one called
\* `metadata`, and its metadata file.
C20_Witness ==
    /\ fs_sink.state = "finalized"
    /\ Len(fs_sink.streams) = 3
    /\ StreamNameCount("the-stream") = 2
    /\ StreamNameCount("metadata") = 1
    /\ "the-stream-0" \in fs_sink.files
    /\ "metadata-0" \in fs_sink.files

\* No message of the trace carries the fields the filter looks for.
NoDebugInfoFields ==
    \A i \in 1 .. Len(pipeline.trace.msgs) :
        ~(/\ pipeline.trace.msgs[i].type = "event"
          /\ pipeline.trace.msgs[i].ip # NoField
          /\ pipeline.trace.msgs[i].vpid # NoField)

\* Both runs of the comparison consumed the whole trace.
BothRunsEnded ==
    /\ pipeline.expected.pos = Len(pipeline.trace.msgs) + 1
    /\ pipeline.actual.pos = Len(pipeline.trace.msgs) + 1

C22_PluginSetOnlyWithOk ==
    LoadReturned =>
        /\ load.set_out =>
              (load.status = BT_FUNC_STATUS_OK /\ Len(plugins) > 0)
        /\ load.status # BT_FUNC_STATUS_OK =>
              (~load.set_out /\ Len(plugins) = 0)
        /\ load.status = BT_FUNC_STATUS_OK => load.set_out

\* A load of the static sections returned OK with a set of two plugins,
\* after it skipped nothing.
C22_Witness ==
    /\ LoadReturned /\ load.func = "from_static"
    /\ load.status = BT_FUNC_STATUS_OK /\ load.set_out
    /\ Len(plugins) = 2
    /\ plugin_set_refs = 1

\* The component classes that hold a reference on the shared library
\* handle, and the plugins that do.
HandleHolders ==
    {id \in 1..Len(comp_classes) : comp_classes[id].so_handle}
LivePlugins == {i \in 1..Len(plugins) : ~plugins[i].destroyed}

\* C23: a component class of a shared object plugin is in the library's
\* list exactly while it holds its reference on the shared library handle
\* (the handle counts one reference for each such class and each living
\* plugin); it gives the reference up once, and never gets it back: in the
\* step that destroys it, or in the library's destructor when it is still
\* alive then, not in both.
C23_ListedWhileHoldingHandle ==
    /\ []((phase # "start" /\ aborted = "none") =>
            /\ component_class_list = HandleHolders
            /\ \A id \in HandleHolders : ~comp_classes[id].destroyed
            /\ phase = "exited" => HandleHolders = {}
            /\ IF HandleHolders = {} /\ LivePlugins = {}
               THEN handle.state # "live"
               ELSE /\ handle.state = "live"
                    /\ handle.ref_count
                          = Cardinality(HandleHolders)
                               + Cardinality(LivePlugins))
    /\ [][(phase # "start" /\ aborted' = "none") =>
            \A id \in 1..Len(comp_classes) :
                /\ ~comp_classes[id].so_handle => ~comp_classes'[id].so_handle
                /\ (comp_classes[id].so_handle /\ ~comp_classes'[id].so_handle)
                      => \/ /\ comp_classes'[id].destroyed
                            /\ phase' = phase
                         \/ /\ ~comp_classes'[id].destroyed
                            /\ phase' = "exited"
                /\ (~comp_classes[id].destroyed /\ comp_classes'[id].destroyed)
                      => (comp_classes[id].so_handle
                            /\ handle'.state = "live"
                               => handle'.ref_count < handle.ref_count)
       ]_vars

\* The process ended while a component kept its class alive after every
\* plugin was gone: the destructor released the class's reference.
C23_Witness ==
    /\ phase = "exited" /\ aborted = "none"
    /\ AllPluginsDestroyed /\ Len(plugins) > 0
    /\ components # {}
    /\ \E id \in LiveCompClasses : ~comp_classes[id].so_handle
    /\ \E id \in 1..Len(comp_classes) : comp_classes[id].destroyed
    /\ handle.state = "destroyed"

\* The initialization function of the plugin of a descriptor ran and
\* returned success.
InitSucceeded(descriptor) ==
    \E k \in 1..Len(load.init_calls) :
        /\ load.init_calls[k].descriptor = descriptor
        /\ load.init_calls[k].status >= 0

\* C24: the exit function of a plugin is called at most once, only when
\* the shared library handle is destroyed (the module is closed by then),
\* and only when the initialization function of that same plugin ran and
\* returned success, also when the shared object declares several plugins.
C24_ExitOnlyAfterOwnInit ==
    (phase # "start" /\ aborted = "none") =>
        /\ \A j, k \in 1..Len(handle.exit_calls) :
              handle.exit_calls[j] = handle.exit_calls[k] => j = k
        /\ handle.exit_calls # <<>> =>
              (handle.state = "destroyed" /\ handle.module # "open")
        /\ \A k \in 1..Len(handle.exit_calls) :
              InitSucceeded(handle.exit_calls[k])

\* C25: a load that returns a negative status has appended at least one
\* cause to the thread's error.
C25_CauseOnErrorStatus ==
    (LoadReturned /\ load.status < 0) => error_causes >= 1

\* A load returned a memory error met while it made a component class of
\* the second plugin, with causes appended.
C25_Witness ==
    /\ LoadReturned /\ load.status = BT_FUNC_STATUS_MEMORY_ERROR
    /\ load.fault = "comp_class_alloc"
    /\ error_causes >= 1

\* The semantic validator validated the AST: it ran and returned 0.
SemanticCheckAccepted ==
    metadata.semantic_checked /\ metadata.semantic.ret = 0

\* C26: once the semantic validator has validated a node, the node is
\* marked visited (so that a later pass returns at once on it).
C26_ValidatedNodeMarkedVisited ==
    SemanticCheckAccepted => metadata.ast.visited

\* The top-level blocks of an AST.
TopLevelBlocksOf(ast) ==
    UNION {{ast[b[1]][i] : i \in 1..Len(ast[b[1]])} :
              b \in TopLevelBlockLists}
\* The nodes inside a top-level block, the block being a child of the root.
NodesInBlock(block) == Occurrences(block, "NODE_ROOT", "none", 1)
\* A unary expression that is the left child of a CTF expression and is not
\* a plain string: the validator rejects it when it checks it.
IsNonStringLeft(o) ==
    /\ o.node.type = "NODE_UNARY_EXPRESSION"
    /\ o.parent = "NODE_CTF_EXPRESSION" /\ o.list = "left"
    /\ o.node.unary_type # "UNARY_STRING"

\* C27: the validation started at the root returns non-zero when a
\* top-level block of any kind (trace, stream, event, env, clock, callsite)
\* holds a structurally illegal node.
C27_IllegalNodeInTopLevelBlockRejected ==
    (SemanticCheckRan
     /\ \E b \in TopLevelBlocksOf(metadata.ast) :
            \E o \in NodesInBlock(b) : IsNonStringLeft(o))
        => metadata.semantic.ret # 0

\* The step is a creation of a stream beginning or stream end message that
\* failed on the creation of its clock snapshot, after the message took its
\* reference on the stream.
StreamCreateFailedOnSnapshot ==
    /\ stream_msg_call'.func = "create"
    /\ stream_msg_call'.outcome = "NULL"
    /\ stream_msg_call'.fault = "default_cs"
\* The same for a discarded events or discarded packets message.
DiscardedCreateFailedOnSnapshot ==
    /\ msg_call'.func \notin {"none", "set_count", "get_count", "put_ref"}
    /\ msg_call'.outcome = "NULL"
    /\ msg_call'.with_cs /\ msg_call'.fault \in {"begin_cs", "end_cs"}

\* C28: a creation of a stream beginning, stream end, discarded events or
\* discarded packets message that fails on a clock snapshot leaves the
\* reference count of the stream as it was before the call.
C28_FailedCreateKeepsStreamRefCount ==
    [][(StreamCreateFailedOnSnapshot \/ DiscardedCreateFailedOnSnapshot)
           => stream_ref_count' = stream_ref_count]_vars

\* The bytes of an event that holds a line of n characters: the characters
\* and the null character that ends the string.
EventBytes(n) == n + 1

\* C29: every line read that fits in a packet, a last line without a
\* newline included, gives one event that holds exactly the line's bytes.
C29_OneEventPerLine ==
    [][(StringTraced
        /\ LineFits(FirstLineOffset, EventBytes(converter'.last[1].n)))
           => /\ Len(converter'.out) = Len(converter.out) + 1
              /\ converter'.out[Len(converter'.out)].line = converter'.lines
              /\ converter'.out[Len(converter'.out)].len =
                     EventBytes(converter'.last[1].n)]_vars

\* The bits of the packet p that hold its header, its context and its
\* events: what comes after is padding.
RECURSIVE ContentEnd(_, _)
ContentEnd(p, i) ==
    IF i = 0 THEN FirstLineOffset
    ELSE IF converter.out[i].packet = p
    THEN converter.out[i].offset + converter.out[i].len * CHAR_BIT
    ELSE ContentEnd(p, i - 1)
ContentSizeOf(p) == ContentEnd(p, Len(converter.out))

\* The packets of the output that are complete: all of them once the
\* converter returned, the ones before the current packet until then.
CompletePackets ==
    {p \in 1 .. Len(converter.pos.contexts) :
        \/ converter.state = "exited" /\ converter.ret = 0
        \/ p < converter.pos.packet}

\* C30: the packet context of every packet written records the content
\* size of the packet and its packet size.
C30_ContextRecordsSizes ==
    \A p \in CompletePackets :
        /\ converter.pos.contexts[p].content_size = ContentSizeOf(p)
        /\ converter.pos.contexts[p].packet_size = packet_size
====
